---- MODULE Spec2Model ----
(***************************************************************************)
(* Model of the Xaurum -> ReadyForFlow converter (src/xaurum_converter.py). *)
(*                                                                         *)
(* Text is modelled as a sequence of one-character strings, so that the    *)
(* field normalizers are computed character by character as the Python     *)
(* code computes them.  A cell value of a worksheet is a tagged record     *)
(* (None, str, int, datetime), see NoneVal, StrVal, NumVal, DateVal.       *)
(*                                                                         *)
(* Several specifications share the module: SpecSap and SpecDate apply one *)
(* field normalizer to its inputs, Spec runs convert_certificates on a     *)
(* source sheet step by step, SpecHdr and SpecLink run the Header          *)
(* Resolver, SpecXls the Format Normalizer and its caller, SpecMain the    *)
(* Pipeline Driver with the Staff-master refresh.  Each one leaves the     *)
(* state of the others idle.                                               *)
(***************************************************************************)
EXTENDS Integers, Sequences, FiniteSets, TLC

VARIABLES
    padY,           \* platform: does strftime("%Y") zero-pad years below 1000
    sapIn,          \* normalize_sapnr: the raw value
    sapOut,         \* normalize_sapnr: the result
    sapPc,          \* normalize_sapnr: "in" before the call, "out" after it
    dateIn,         \* normalize_date: the raw value
    dateOut,        \* normalize_date(dateIn)
    dateOut2,       \* normalize_date(dateOut)
    datePc,         \* "in", "once", "twice"
    certPc,         \* convert_certificates: "start", "read", "dedup", "done", "raised"
    ws,             \* the active sheet of the source workbook
    ix,             \* the resolved column indexes iEmp .. iLink (0: None)
    r,              \* the row the reading loop is at
    raw_rows,       \* the normalized records read so far
    raw_from,       \* history: the source row of each record of raw_rows
    di,             \* the record the deduplication loop is at
    best_per_cert,  \* the current winner per IdentityKey, in insertion order
    out_rows,       \* the data rows written to the output sheet
    dstExists,      \* does the output file exist
    hdrPc,          \* Header Resolver: "start", "indexed", "looked"; "probe", "resolved"
    hdrA,           \* a sheet
    hdrB,           \* another sheet
    mpA,            \* ws_headers_index(hdrA)
    mpB,            \* ws_headers_index(hdrB)
    hdrNames,       \* the synonym tuple of the lookup
    idxA,           \* _idx(mpA, hdrNames) (0: None)
    idxB,           \* _idx(mpB, hdrNames)
    recipe,         \* the conversion recipe that resolves its link field
    iLink,          \* the link column the recipe resolved (0: None)
    xPc,            \* Format Normalizer: where ensure_xlsx_from_xls or its caller is
    xCaller,        \* "direct", or "find" when find_latest_input made the call
    xSuffix,        \* the suffix of the source path
    haveXlrd,       \* can xlrd be imported
    HAVE_COM,       \* could win32com be imported
    srcMtime,       \* modification time of the source file
    sib,            \* the canonical sibling file: exists, mtime, size, access
    sibAtEntry,     \* history: the sibling when the call began
    xRet,           \* the path the call returned: "none", "src", "sibling"
    bestInput,      \* find_latest_input: its local best, "none" for None
    excel,          \* the local excel: is it not None
    wb,             \* the local wb: is it not None
    success,        \* the local success
    comFailed,      \* the step of the secondary strategy that raised, "none" if none
    comLog,         \* history: the calls made on the external application, in order
    strategies,     \* history: the strategies invoked by the call
    produced,       \* history: the strategy of this call that wrote the output file
    calls,          \* history: number of calls of ensure_xlsx_from_xls so far
    prevCall,       \* history: outcome of the previous call
    mPc,            \* main: the statement main is at
    located,        \* certs, comps, train, certres: "pending", "none" (None), "file"
    convResult,     \* per dataset kind: "pending", "skipped", "ok", "failed"
    trace,          \* history: what the run has done, in order
    sPc,            \* refresh_converter_and_export_staff: the statement it is at
    staffCom,       \* HAVE_COM as the Staff-master refresh reads it
    masterExists,   \* CONVERTER_XLSM.exists()
    staff_excel,    \* the application started by the refresh: "none", "live", "quit"
    staff_wb,       \* the master work-copy: "none", "open", "closed"
    new_wb,         \* the copied export workbook: "none", "open", "closed"
    wbLocal,        \* is the local wb of the refresh not None
    sLog,           \* history: the calls made on the application by the refresh
    resPc,          \* convert_cert_results: the statement it is at
    resDstBefore,   \* history: did dst exist when the recipe was called
    resDst,         \* does dst exist
    staffFile,      \* OUT_STAFF_XLSX: "missing", "unloadable", "ok"
    staffSheet,     \* the active sheet of the Staff extract
    gid_to_sap,     \* the LookupTable, in insertion order
    resWs,          \* the active sheet of the Certification Results source
    resIx,          \* the resolved column indexes (0: None)
    rr,             \* the row the writing loop is at
    res_rows,       \* the data rows appended to ws_out
    missing_gid,    \* the counter of missing lookups
    tables,         \* the named tables of the saved output: name and range
    trPc,           \* convert_training: "idle", "start", "rows", "style", "done", "raised"
    trDst,          \* the output file of convert_training exists
    trWs,           \* the sheet of the training source: row 1 reserved, row 2 headers
    trIx,           \* the column indices of convert_training (0: None)
    tRow,           \* the row of the writing loop of convert_training
    tr_rows,        \* the rows appended to the training output
    missing,        \* the critical columns reported as not found
    trReads,        \* the column indices passed to ws.cell in the writing loop
    fPc,            \* find_latest_input: "idle", "start", "sorted", "found", "raised"
    inbox0,         \* INBOX when find_latest_input is called: file -> mtime (0: no such file)
    INBOX,          \* INBOX now: file -> mtime (0: no such file)
    cands,          \* the candidates, sorted
    fBest,          \* the file find_latest_input returns, or NoInput
    fConv,          \* how the legacy candidate became canonical: "none", "cache", "converted", "failed"
    dPc,            \* run of a downloader: "idle", "start", "loop", "saved", "closing", "handler", "notify", "final", "returned", "exited", "crashed"
    dScript,        \* the downloader script
    headless,       \* should_run_headless()
    attempt,        \* the loop variable of run
    last_err,       \* last_err: the attempt that raised it (0: None)
    last_shot,      \* last_shot is a file
    dLog,           \* the calls run has made, in order
    ctxOpen,        \* the browser context is open
    browserOpen,    \* the browser is open
    exitCode,       \* the exit code of the script (-1: still running)
    lPc,            \* run_scripts_silent: "idle", "start", "scripts", "running", "converter", "conv_running", "summary", "done"
    authResult,     \* smart_bootstrap(): "true", "false", "raises"
    converterExists,\* converter_path.exists()
    scriptIx,       \* the position of the loop in SCRIPT_NAMES
    started,        \* the scripts run_path was called on, in order
    results,        \* the exit codes recorded for the downloaders, in order
    converter_rc,   \* converter_rc
    sysIo,          \* sys.argv, sys.stdout and sys.stderr: "own" or the script they are set for
    silentRet       \* the value run_scripts_silent returns (-1: not yet)

sapVars  == <<sapIn, sapOut, sapPc>>
dateVars == <<dateIn, dateOut, dateOut2, datePc>>
certVars == <<certPc, ws, ix, r, raw_rows, raw_from, di, best_per_cert, out_rows, dstExists>>
hdrVars  == <<hdrPc, hdrA, hdrB, mpA, mpB, hdrNames, idxA, idxB, recipe, iLink>>
xlsVars  == <<xPc, xCaller, xSuffix, haveXlrd, HAVE_COM, srcMtime, sib, sibAtEntry, xRet, bestInput,
              excel, wb, success, comFailed, comLog, strategies, produced, calls, prevCall>>
oldVars  == <<padY, sapVars, dateVars, certVars>>
mainVars == <<mPc, located, convResult, trace, sPc, staffCom, masterExists, staff_excel, staff_wb,
              new_wb, wbLocal, sLog>>
resVars  == <<resPc, resDstBefore, resDst, staffFile, staffSheet, gid_to_sap, resWs, resIx, rr,
              res_rows, missing_gid, tables>>
trainVars == <<trPc, trDst, trWs, trIx, tRow, tr_rows, missing, trReads>>
findVars == <<fPc, inbox0, INBOX, cands, fBest, fConv>>
dlVars   == <<dPc, dScript, headless, attempt, last_err, last_shot, dLog, ctxOpen, browserOpen,
              exitCode>>
silentVars == <<lPc, authResult, converterExists, scriptIx, started, results, converter_rc, sysIo,
              silentRet>>
newVars  == <<hdrVars, xlsVars, mainVars, resVars, trainVars, findVars, dlVars, silentVars>>
notHdr   == <<oldVars, xlsVars, mainVars, resVars, trainVars, findVars, dlVars, silentVars>>
notXls   == <<oldVars, hdrVars, mainVars, resVars, trainVars, findVars, dlVars, silentVars>>
notMain  == <<oldVars, hdrVars, xlsVars, resVars, trainVars, findVars, dlVars, silentVars>>
notRes   == <<oldVars, hdrVars, xlsVars, mainVars, trainVars, findVars, dlVars, silentVars>>
notTrain == <<oldVars, hdrVars, xlsVars, mainVars, resVars, findVars, dlVars, silentVars>>
notFind  == <<oldVars, hdrVars, xlsVars, mainVars, resVars, trainVars, dlVars, silentVars>>
notDl    == <<oldVars, hdrVars, xlsVars, mainVars, resVars, trainVars, findVars, silentVars>>
notSilent == <<oldVars, hdrVars, xlsVars, mainVars, resVars, trainVars, findVars, dlVars>>
vars     == <<padY, sapVars, dateVars, certVars, newVars>>

-----------------------------------------------------------------------------
(* Bounds of the model *)

\* longest generated raw identifier text
MaxSapLen == 6

-----------------------------------------------------------------------------
(* Python values *)

NoneVal == [kind |-> "none", s |-> <<>>, n |-> 0, y |-> 0, m |-> 0, d |-> 0]

StrVal(t) == [kind |-> "str", s |-> t, n |-> 0, y |-> 0, m |-> 0, d |-> 0]

NumVal(i) == [kind |-> "num", s |-> <<>>, n |-> i, y |-> 0, m |-> 0, d |-> 0]

DateVal(yy, mm, dd) == [kind |-> "datetime", s |-> <<>>, n |-> 0, y |-> yy, m |-> mm, d |-> dd]

Digits == {"0", "1", "2", "3", "4", "5", "6", "7", "8", "9"}

IsDigit(c) == c \in Digits

IsSpace(c) == c \in {" ", "\t"}

DigitVal(c) ==
    CASE c = "0" -> 0 [] c = "1" -> 1 [] c = "2" -> 2 [] c = "3" -> 3
      [] c = "4" -> 4 [] c = "5" -> 5 [] c = "6" -> 6 [] c = "7" -> 7
      [] c = "8" -> 8 [] c = "9" -> 9

DigitChar(i) ==
    CASE i = 0 -> "0" [] i = 1 -> "1" [] i = 2 -> "2" [] i = 3 -> "3"
      [] i = 4 -> "4" [] i = 5 -> "5" [] i = 6 -> "6" [] i = 7 -> "7"
      [] i = 8 -> "8" [] i = 9 -> "9"

\* the decimal digits of a natural number, as str(int) prints them
RECURSIVE NatToStr(_)
NatToStr(i) == IF i < 10 THEN <<DigitChar(i)>> ELSE NatToStr(i \div 10) \o <<DigitChar(i % 10)>>

IntToStr(i) == IF i < 0 THEN <<"-">> \o NatToStr(0 - i) ELSE NatToStr(i)

\* a number printed with at least w digits (zero padded), as %02d / %04d
RECURSIVE ZeroPad(_, _)
ZeroPad(t, w) == IF Len(t) >= w THEN t ELSE ZeroPad(<<"0">> \o t, w)

\* str(v) of a cell value
PyStr(v) ==
    CASE v.kind = "str" -> v.s
      [] v.kind = "num" -> IntToStr(v.n)
      [] v.kind = "datetime" ->
            ZeroPad(NatToStr(v.y), 4) \o <<"-">> \o ZeroPad(NatToStr(v.m), 2) \o <<"-">>
            \o ZeroPad(NatToStr(v.d), 2) \o <<" ", "0", "0", ":", "0", "0", ":", "0", "0">>
      [] OTHER -> <<"N", "o", "n", "e">>

\* truth value of a cell value (bool(v)): None, "" and 0 are false
Truthy(v) ==
    CASE v.kind = "none" -> FALSE
      [] v.kind = "str" -> v.s # <<>>
      [] v.kind = "num" -> v.n # 0
      [] OTHER -> TRUE

RECURSIVE LStrip(_)
LStrip(t) == IF t # <<>> /\ IsSpace(Head(t)) THEN LStrip(Tail(t)) ELSE t

RECURSIVE RStrip(_)
RStrip(t) == IF t # <<>> /\ IsSpace(t[Len(t)]) THEN RStrip(SubSeq(t, 1, Len(t) - 1)) ELSE t

\* str.strip()
Strip(t) == RStrip(LStrip(t))

-----------------------------------------------------------------------------
(* Identifier normalizer *)

\* re.sub(r"\D", "", s)
RECURSIVE ReSubNonDigit(_)
ReSubNonDigit(t) ==
    IF t = <<>> THEN <<>>
    ELSE (IF IsDigit(Head(t)) THEN <<Head(t)>> ELSE <<>>) \o ReSubNonDigit(Tail(t))

\* a slip in the slice: the first five digits instead of the last five
normalize_sapnr_first5(val) ==
    IF val.kind = "none" THEN <<>>
    ELSE LET s == Strip(PyStr(val)) IN
         IF s = <<>> THEN <<>>
         ELSE LET digits == ReSubNonDigit(s) IN
              IF Len(digits) >= 5 THEN SubSeq(digits, 1, 5) ELSE digits

\* a slip in the short case: fewer than five digits give nothing
normalize_sapnr_dropshort(val) ==
    IF val.kind = "none" THEN <<>>
    ELSE LET s == Strip(PyStr(val)) IN
         IF s = <<>> THEN <<>>
         ELSE LET digits == ReSubNonDigit(s) IN
              IF Len(digits) >= 5 THEN SubSeq(digits, Len(digits) - 4, Len(digits)) ELSE <<>>

normalize_sapnr(val) ==
    IF val.kind = "none" THEN <<>>
    ELSE LET s == Strip(PyStr(val)) IN
         IF s = <<>> THEN <<>>
         ELSE LET digits == ReSubNonDigit(s) IN
              IF Len(digits) >= 5 THEN SubSeq(digits, Len(digits) - 4, Len(digits)) ELSE digits

-----------------------------------------------------------------------------
(* Date normalizer *)

LowerChar(c) ==
    CASE c = "A" -> "a"
      [] c = "B" -> "b"
      [] c = "C" -> "c"
      [] c = "D" -> "d"
      [] c = "E" -> "e"
      [] c = "F" -> "f"
      [] c = "G" -> "g"
      [] c = "H" -> "h"
      [] c = "I" -> "i"
      [] c = "J" -> "j"
      [] c = "K" -> "k"
      [] c = "L" -> "l"
      [] c = "M" -> "m"
      [] c = "N" -> "n"
      [] c = "O" -> "o"
      [] c = "P" -> "p"
      [] c = "Q" -> "q"
      [] c = "R" -> "r"
      [] c = "S" -> "s"
      [] c = "T" -> "t"
      [] c = "U" -> "u"
      [] c = "V" -> "v"
      [] c = "W" -> "w"
      [] c = "X" -> "x"
      [] c = "Y" -> "y"
      [] c = "Z" -> "z"
      [] OTHER -> c

\* a slip: the case is kept
Lower_keep(t) == t

\* str.lower()
Lower(t) == [i \in 1..Len(t) |-> LowerChar(t[i])]

\* int(text) of a captured group; int() ignores surrounding blanks
RECURSIVE DigitsToNat(_)
DigitsToNat(t) == IF t = <<>> THEN 0 ELSE 10 * DigitsToNat(SubSeq(t, 1, Len(t) - 1)) + DigitVal(t[Len(t)])

StrToNat(t) == DigitsToNat(Strip(t))

\* the character at position i, "" past the end
At(t, i) == IF i >= 1 /\ i <= Len(t) THEN t[i] ELSE ""

IsDirective(tok) == tok \in {"%Y", "%m", "%d", "%y"}

\* The lengths of the alternatives of a directive's regular expression that match
\* at pos, in the order the regular expression lists them (_strptime.TimeRE):
\*   %d  3[0-1]|[1-2]\d|0[1-9]|[1-9]| [1-9]     %m  1[0-2]|0[1-9]|[1-9]
\*   %Y  \d\d\d\d                                %y  \d\d
DirAlts(tok, t, pos) ==
    LET a == At(t, pos)
        b == At(t, pos + 1)
        one(cond, len) == IF cond THEN <<len>> ELSE <<>>
    IN  CASE tok = "%d" ->
                one(a = "3" /\ b \in {"0", "1"}, 2)
                \o one(a \in {"1", "2"} /\ IsDigit(b), 2)
                \o one(a = "0" /\ IsDigit(b) /\ b # "0", 2)
                \o one(IsDigit(a) /\ a # "0", 1)
                \o one(a = " " /\ IsDigit(b) /\ b # "0", 2)
          [] tok = "%m" ->
                one(a = "1" /\ b \in {"0", "1", "2"}, 2)
                \o one(a = "0" /\ IsDigit(b) /\ b # "0", 2)
                \o one(IsDigit(a) /\ a # "0", 1)
          [] tok = "%Y" ->
                one(/\ IsDigit(a) /\ IsDigit(b)
                    /\ IsDigit(At(t, pos + 2)) /\ IsDigit(At(t, pos + 3)), 4)
          [] tok = "%y" -> one(IsDigit(a) /\ IsDigit(b), 2)

NoMatch == [ok |-> FALSE, end |-> 0, caps |-> <<>>]

\* format_regex.match(data_string): the first match in the regular expression's
\* backtracking order of the format from token i on against t from pos on;
\* end is the number of characters matched (the match need not reach the end)
RECURSIVE ReMatch(_, _, _, _)
RECURSIVE TryAlts(_, _, _, _, _, _)
ReMatch(fmt, i, t, pos) ==
    IF i > Len(fmt) THEN [ok |-> TRUE, end |-> pos - 1, caps |-> <<>>]
    ELSE IF IsDirective(fmt[i]) THEN TryAlts(fmt, i, t, pos, DirAlts(fmt[i], t, pos), 1)
    ELSE IF At(t, pos) = fmt[i] THEN ReMatch(fmt, i + 1, t, pos + 1)
    ELSE NoMatch

TryAlts(fmt, i, t, pos, alts, k) ==
    IF k > Len(alts) THEN NoMatch
    ELSE LET found == ReMatch(fmt, i + 1, t, pos + alts[k])
         IN  IF found.ok
             THEN [found EXCEPT !.caps = <<[tok |-> fmt[i],
                                        txt |-> SubSeq(t, pos, pos + alts[k] - 1)]>> \o @]
             ELSE TryAlts(fmt, i, t, pos, alts, k + 1)

\* found_dict[tok] of a match
Cap(caps, tok) == LET i == CHOOSE j \in 1..Len(caps) : caps[j].tok = tok IN caps[i].txt

HasCap(caps, tok) == \E j \in 1..Len(caps) : caps[j].tok = tok

IsLeap(yy) == (yy % 4 = 0 /\ yy % 100 # 0) \/ yy % 400 = 0

DaysInMonth(yy, mm) ==
    CASE mm \in {4, 6, 9, 11} -> 30
      [] mm = 2 -> IF IsLeap(yy) THEN 29 ELSE 28
      [] OTHER -> 31

\* datetime.strptime(t, fmt): the datetime, or None where Python raises ValueError
\* (no match, unconverted data remains, year 0, day out of range for the month)
strptime(t, fmt) ==
    LET found == ReMatch(fmt, 1, t, 1)
    IN  IF ~found.ok \/ found.end # Len(t) THEN NoneVal
        ELSE LET yy == IF HasCap(found.caps, "%y")
                       THEN LET y2 == StrToNat(Cap(found.caps, "%y"))
                            IN  IF y2 <= 68 THEN y2 + 2000 ELSE y2 + 1900
                       ELSE StrToNat(Cap(found.caps, "%Y"))
                 mm == StrToNat(Cap(found.caps, "%m"))
                 dd == StrToNat(Cap(found.caps, "%d"))
             IN  IF yy < 1 \/ dd > DaysInMonth(yy, mm) THEN NoneVal ELSE DateVal(yy, mm, dd)

\* dt.strftime("%Y-%m-%d"); the C library decides whether %Y pads a year below 1000
strftime(dt) ==
    (IF padY THEN ZeroPad(NatToStr(dt.y), 4) ELSE NatToStr(dt.y))
    \o <<"-">> \o ZeroPad(NatToStr(dt.m), 2) \o <<"-">> \o ZeroPad(NatToStr(dt.d), 2)

F_Ymd_dash  == <<"%Y", "-", "%m", "-", "%d">>
F_dmY_dash  == <<"%d", "-", "%m", "-", "%Y">>
F_dmY_slash == <<"%d", "/", "%m", "/", "%Y">>
F_mdY_slash == <<"%m", "/", "%d", "/", "%Y">>
F_dmy_slash == <<"%d", "/", "%m", "/", "%y">>
F_dmy_dash  == <<"%d", "-", "%m", "-", "%y">>
F_Ymd_slash == <<"%Y", "/", "%m", "/", "%d">>
F_dmY_dot   == <<"%d", ".", "%m", ".", "%Y">>
F_Ymd_plain == <<"%Y", "%m", "%d">>
F_Ydm_dash  == <<"%Y", "-", "%d", "-", "%m">>

\* a slip in the first pattern: day and month exchanged
DateFormatsSwapped ==
    <<F_Ydm_dash, F_dmY_dash, F_dmY_slash, F_mdY_slash, F_dmy_slash, F_dmy_dash,
      F_Ymd_slash, F_dmY_dot, F_Ymd_plain>>

DateFormats ==
    <<F_Ymd_dash, F_dmY_dash, F_dmY_slash, F_mdY_slash, F_dmy_slash, F_dmy_dash,
      F_Ymd_slash, F_dmY_dot, F_Ymd_plain>>

S_nvt_dots  == <<"n", ".", "v", ".", "t">>
S_nvt       == <<"n", "v", "t">>
S_onbeperkt == <<"o", "n", "b", "e", "p", "e", "r", "k", "t">>
S_unlimited == <<"u", "n", "l", "i", "m", "i", "t", "e", "d">>

Sentinels == {S_nvt_dots, S_nvt, S_onbeperkt, S_unlimited}

\* the loop over the patterns: the first that parses, else the text itself
RECURSIVE TryFormats(_, _)
TryFormats(s, k) ==
    IF k > Len(DateFormats) THEN s
    ELSE LET dt == strptime(s, DateFormats[k])
         IN  IF dt.kind = "datetime" THEN strftime(dt) ELSE TryFormats(s, k + 1)

\* a slip: the branch that drops numbers is missing, a number is treated as text
normalize_date_noserial(v) ==
    IF v.kind = "none" THEN <<>>
    ELSE IF v.kind = "datetime" THEN strftime(v)
    ELSE LET s == Strip(PyStr(v))
         IN  IF s = <<>> \/ Lower(s) \in Sentinels THEN s ELSE TryFormats(s, 1)

normalize_date(v) ==
    IF v.kind = "none" THEN <<>>
    ELSE IF v.kind = "datetime" THEN strftime(v)
    ELSE IF v.kind = "num" THEN <<>>
    ELSE LET s == Strip(PyStr(v))
         IN  IF s = <<>> \/ Lower(s) \in Sentinels THEN s ELSE TryFormats(s, 1)

-----------------------------------------------------------------------------
(* Certificate-name normalizer *)

\* t[pos..] begins with pat
StartsWithAt(t, pos, pat) ==
    pos + Len(pat) - 1 <= Len(t) /\ SubSeq(t, pos, pos + Len(pat) - 1) = pat

\* str.replace(pat, rep) from pos on: left to right, matches do not overlap
RECURSIVE ReplaceAll(_, _, _, _)
ReplaceAll(t, pos, pat, rep) ==
    IF pos > Len(t) THEN <<>>
    ELSE IF StartsWithAt(t, pos, pat) THEN rep \o ReplaceAll(t, pos + Len(pat), pat, rep)
    ELSE <<t[pos]>> \o ReplaceAll(t, pos + 1, pat, rep)

\* \s* at pos: the position after the run of blanks
RECURSIVE SkipSpaces(_, _)
SkipSpaces(t, pos) == IF pos <= Len(t) /\ IsSpace(t[pos]) THEN SkipSpaces(t, pos + 1) ELSE pos

S_EQUANS     == <<"E", "Q", "U", "A", "N", "S", "_">>
S_EA_E       == <<"E", "A", "-", "E", "-">>
S_BA5_Safety == <<"B", "A", "5", " ", "S", "a", "f", "e", "t", "y">>
S_sep_BA5    == <<" ", "-", " ", "B", "A", "5", " ", "S", "a", "f", "e", "t", "y">>

\* (EA-E-\d{3})\s*-?\s*BA5 Safety at pos: the position after the match, 0 if none
BA5MatchEnd(t, pos) ==
    IF ~(/\ StartsWithAt(t, pos, S_EA_E)
         /\ IsDigit(At(t, pos + 5)) /\ IsDigit(At(t, pos + 6)) /\ IsDigit(At(t, pos + 7)))
    THEN 0
    ELSE LET p1 == SkipSpaces(t, pos + 8)
             p2 == IF At(t, p1) = "-" THEN p1 + 1 ELSE p1
             p3 == SkipSpaces(t, p2)
         IN  IF StartsWithAt(t, p3, S_BA5_Safety) THEN p3 + Len(S_BA5_Safety) ELSE 0

\* re.sub(r"(EA-E-\d{3})\s*-?\s*BA5 Safety", r"\1 - BA5 Safety", cert) from pos on
RECURSIVE ReSubBA5(_, _)
ReSubBA5(t, pos) ==
    IF pos > Len(t) THEN <<>>
    ELSE LET e == BA5MatchEnd(t, pos)
         IN  IF e # 0 THEN SubSeq(t, pos, pos + 7) \o S_sep_BA5 \o ReSubBA5(t, e)
             ELSE <<t[pos]>> \o ReSubBA5(t, pos + 1)

\* re.sub(r"\s+", " ", cert) from pos on
RECURSIVE CollapseSpaces(_, _)
CollapseSpaces(t, pos) ==
    IF pos > Len(t) THEN <<>>
    ELSE IF IsSpace(t[pos]) THEN <<" ">> \o CollapseSpaces(t, SkipSpaces(t, pos))
    ELSE <<t[pos]>> \o CollapseSpaces(t, pos + 1)

\* normalize_certname on the text of a str value
CertNameText(t) == Strip(CollapseSpaces(ReSubBA5(ReplaceAll(t, 1, S_EQUANS, <<>>), 1), 1))

\* normalize_certname raises AttributeError on a true value that is no str
CertNameRaises(cert) == Truthy(cert) /\ cert.kind # "str"

normalize_certname(cert) == IF ~Truthy(cert) THEN <<>> ELSE CertNameText(cert.s)

-----------------------------------------------------------------------------
(* Worksheet and Header Resolver *)

\* A worksheet is the sequence of its rows, row 1 first; a row is the sequence of
\* its cells; a cell has a value and a hyperlink target (<<>>: no hyperlink).
EmptyCell == [value |-> NoneVal, hyperlink |-> <<>>]

WsMaxRow(sheet) == Len(sheet)

WsMaxColumn(sheet) == Len(sheet[1])

\* ws.cell(row, c): a cell outside the filled range is empty
WsCell(sheet, row, c) ==
    IF row \in 1..Len(sheet) /\ c \in 1..Len(sheet[row]) THEN sheet[row][c] ELSE EmptyCell

EmptyMap == [k \in {} |-> 0]

\* the loop of ws_headers_index from column c on: a later column with the same
\* label replaces an earlier one
RECURSIVE HeadersFrom(_, _, _, _)
HeadersFrom(sheet, row, c, mp) ==
    IF c > WsMaxColumn(sheet) THEN mp
    ELSE LET v == WsCell(sheet, row, c).value
             k == Lower(Strip(PyStr(v)))
         IN  IF v.kind # "none" /\ k # <<>>
             THEN HeadersFrom(sheet, row, c + 1, (k :> c) @@ mp)
             ELSE HeadersFrom(sheet, row, c + 1, mp)

ws_headers_index(sheet, row) == HeadersFrom(sheet, row, 1, EmptyMap)

\* _idx: the column of the first synonym that is a label; 0 stands for None
RECURSIVE IdxFrom(_, _, _)
IdxFrom(mp, names, i) ==
    IF i > Len(names) THEN 0
    ELSE IF names[i] \in DOMAIN mp THEN mp[names[i]]
    ELSE IdxFrom(mp, names, i + 1)

\* a slip in the priority: the leftmost column that carries a synonym
_idx_leftmost(mp, names) ==
    LET cs == {mp[names[i]] : i \in {j \in 1..Len(names) : names[j] \in DOMAIN mp}}
    IN  IF cs = {} THEN 0 ELSE CHOOSE c \in cs : \A d \in cs : c <= d

_idx(mp, names) == IdxFrom(mp, names, 1)

S_http  == <<"h", "t", "t", "p", ":", "/", "/">>
S_https == <<"h", "t", "t", "p", "s", ":", "/", "/">>

\* a slip: only the text of the cell is looked at, not its hyperlink
parse_hyperlink_cell_textonly(cell) ==
    IF /\ Truthy(cell.value) /\ cell.value.kind = "str"
       /\ (StartsWithAt(cell.value.s, 1, S_http) \/ StartsWithAt(cell.value.s, 1, S_https))
    THEN cell.value.s
    ELSE <<>>

\* parse_hyperlink_cell: the target, <<>> standing for None
parse_hyperlink_cell(cell) ==
    IF cell.hyperlink # <<>> THEN cell.hyperlink
    ELSE IF /\ Truthy(cell.value) /\ cell.value.kind = "str"
            /\ (StartsWithAt(cell.value.s, 1, S_http) \/ StartsWithAt(cell.value.s, 1, S_https))
         THEN cell.value.s
         ELSE <<>>

Syn_Emp ==
    <<<<"n", "a", "a", "m">>, <<"n", "a", "m", "e">>,
      <<"p", "e", "r", "s", "o", "n", "e", "e", "l">>,
      <<"e", "m", "p", "l", "o", "y", "e", "e">>,
      <<"e", "m", "p", "l", "o", "y", "e", "e", "_", "n", "a", "m", "e">>>>

Syn_Svc ==
    <<<<"s", "e", "r", "v", "i", "c", "e">>, <<"p", "o", "o", "l">>,
      <<"d", "i", "e", "n", "s", "t">>>>

Syn_GID ==
    <<<<"g", "r", "o", "u", "p", " ", "i", "d">>,
      <<"s", "t", "a", "f", "f", "g", "i", "d">>, <<"g", "i", "d">>,
      <<"g", "l", "o", "b", "a", "l", " ", "i", "d">>,
      <<"g", "l", "o", "b", "a", "l", "i", "d">>>>

Syn_SAP ==
    <<<<"s", "a", "p", " ", "n", "°">>, <<"s", "a", "p", " ", "n", "r">>,
      <<"e", "m", "p", "l", "o", "y", "e", "e", " ", "n", "°">>,
      <<"e", "m", "p", "l", "o", "y", "e", "e", " ", "n", "r">>,
      <<"s", "t", "a", "f", "f", "s", "a", "p", "n", "r">>,
      <<"s", "a", "p", "n", "r">>, <<"s", "a", "p", "-", "n", "r">>, <<"s", "a", "p">>>>

Syn_Cert ==
    <<<<"c", "e", "r", "t", "i", "f", "i", "c", "a", "a", "t">>,
      <<"c", "e", "r", "t", "n", "a", "m", "e">>,
      <<"c", "e", "r", "t", "i", "f", "i", "c", "a", "t", "e">>>>

Syn_Iss ==
    <<<<"b", "e", "h", "a", "a", "l", "d", " ", "o", "p">>,
      <<"i", "s", "s", "u", "e", "d", " ", "d", "a", "t", "e">>,
      <<"d", "a", "t", "u", "m", " ", "b", "e", "h", "a", "a", "l", "d">>,
      <<"b", "e", "h", "a", "a", "l", "d">>,
      <<"i", "s", "s", "u", "e", "d", "d", "a", "t", "e">>>>

Syn_Exp ==
    <<<<"v", "e", "r", "l", "o", "o", "p", "t", " ", "o", "p">>,
      <<"e", "x", "p", "i", "r", "y", " ", "d", "a", "t", "e">>,
      <<"g", "e", "l", "d", "i", "g", " ", "t", "o", "t">>,
      <<"e", "x", "p", "i", "r", "e", "s">>,
      <<"e", "x", "p", "i", "r", "y", "d", "a", "t", "e">>>>

Syn_Fut ==
    <<<<"t", "o", "e", "k", "o", "m", "s", "t", "i", "g", "e", " ", "c", "e", "r", "t", "i", "f", "i", "c", "a", "t", "e", "n">>,
      <<"f", "u", "t", "u", "r", "e", " ", "c", "e", "r", "t", "i", "f", "i", "c", "a", "t", "e", "s">>,
      <<"f", "u", "t", "u", "r", "e", "_", "c", "e", "r", "t", "i", "f", "i", "c", "a", "t", "e", "s">>,
      <<"f", "u", "t", "u", "r", "e">>>>

Syn_Link ==
    <<<<"d", "o", "w", "n", "l", "o", "a", "d", "l", "i", "n", "k">>,
      <<"d", "o", "w", "n", "l", "o", "a", "d", " ", "l", "i", "n", "k">>,
      <<"d", "r", "u", "k", " ", "c", "e", "r", "t", "i", "f", "i", "c", "a", "a", "t">>,
      <<"p", "r", "i", "n", "t", " ", "c", "e", "r", "t", "i", "f", "i", "c", "a", "t", "e">>,
      <<"l", "i", "n", "k">>, <<"u", "r", "l">>, <<"p", "r", "o", "g", "r", "a", "m">>>>

\* the fallback column of the download link (column H)
LinkFallbackColumn == 8

\* header resolution of convert_certificates; an absent field has index 0
ResolveCertColumns(sheet) ==
    LET mp == ws_headers_index(sheet, 1)
        iLink0 == _idx(mp, Syn_Link)
    IN  [iEmp  |-> _idx(mp, Syn_Emp),
         iSvc  |-> _idx(mp, Syn_Svc),
         iGID  |-> _idx(mp, Syn_GID),
         iSAP  |-> _idx(mp, Syn_SAP),
         iCert |-> _idx(mp, Syn_Cert),
         iIss  |-> _idx(mp, Syn_Iss),
         iExp  |-> _idx(mp, Syn_Exp),
         iFut  |-> _idx(mp, Syn_Fut),
         iLink |-> IF iLink0 = 0 /\ parse_hyperlink_cell(WsCell(sheet, 2, LinkFallbackColumn)) # <<>>
                   THEN LinkFallbackColumn
                   ELSE iLink0]

-----------------------------------------------------------------------------
(* convert_certificates: reading a row *)

\* ws.cell(row, i).value if i else ""
FieldValue(sheet, row, i) == IF i # 0 THEN WsCell(sheet, row, i).value ELSE StrVal(<<>>)

\* the staffSAP of a row: normalize_sapnr, then the (never taken) cut to 5 digits
RowSap(sheet, cols, row) ==
    LET sap == normalize_sapnr(FieldValue(sheet, row, cols.iSAP))
    IN  IF sap # <<>> /\ Len(sap) > 5
        THEN (IF \A i \in (Len(sap) - 4)..Len(sap) : IsDigit(sap[i])
              THEN SubSeq(sap, Len(sap) - 4, Len(sap)) ELSE sap)
        ELSE sap

\* the record that a row is normalized to
ReadRecord(sheet, cols, row) ==
    [Employee_Name       |-> FieldValue(sheet, row, cols.iEmp),
     Service             |-> FieldValue(sheet, row, cols.iSvc),
     staffGID            |-> FieldValue(sheet, row, cols.iGID),
     staffSAP            |-> RowSap(sheet, cols, row),
     CertName            |-> normalize_certname(FieldValue(sheet, row, cols.iCert)),
     IssuedDate          |-> IF cols.iIss # 0 THEN normalize_date(WsCell(sheet, row, cols.iIss).value)
                             ELSE <<>>,
     ExpiryDate          |-> IF cols.iExp # 0 THEN normalize_date(WsCell(sheet, row, cols.iExp).value)
                             ELSE <<>>,
     Future_Certificates |-> FieldValue(sheet, row, cols.iFut),
     DownloadLink        |-> IF cols.iLink # 0 THEN parse_hyperlink_cell(WsCell(sheet, row, cols.iLink))
                             ELSE <<>>]

\* any([emp, svc, gid, sap, cert, iss, exp, fut, link])
AnyField(rec) ==
    \/ Truthy(rec.Employee_Name) \/ Truthy(rec.Service) \/ Truthy(rec.staffGID)
    \/ rec.staffSAP # <<>> \/ rec.CertName # <<>> \/ rec.IssuedDate # <<>>
    \/ rec.ExpiryDate # <<>> \/ Truthy(rec.Future_Certificates) \/ rec.DownloadLink # <<>>

-----------------------------------------------------------------------------
(* convert_certificates: Deduplication Engine *)

\* a slip in the format: the day first
_parse_yyyy_mm_dd_dayfirst(s) == IF s = <<>> THEN NoneVal ELSE strptime(s, F_dmY_dash)

\* datetime.strptime(s, "%Y-%m-%d"), None for the empty text or on ValueError
_parse_yyyy_mm_dd(s) == IF s = <<>> THEN NoneVal ELSE strptime(s, F_Ymd_dash)

\* datetime a > datetime b
DateGT(a, b) ==
    \/ a.y > b.y
    \/ a.y = b.y /\ a.m > b.m
    \/ a.y = b.y /\ a.m = b.m /\ a.d > b.d

\* a slip in the priority: the identifier number before the group identifier
person_key_sap_first(row) ==
    IF row.staffSAP # <<>> THEN StrVal(row.staffSAP)
    ELSE IF Truthy(row.staffGID) THEN row.staffGID
    ELSE row.Employee_Name

\* gid or sap or emp
person_key(row) ==
    IF Truthy(row.staffGID) THEN row.staffGID
    ELSE IF row.staffSAP # <<>> THEN StrVal(row.staffSAP)
    ELSE row.Employee_Name

\* key = (person_key, cert)
KeyOf(row) == <<person_key(row), row.CertName>>

\* a slip in the comparison: only a later date replaces, a date never replaces no date
ReplacesOld_later_only(old_exp, new_exp) ==
    new_exp.kind # "none" /\ old_exp.kind # "none" /\ DateGT(new_exp, old_exp)

\* a slip in the comparison: the earlier date wins
ReplacesOld_earliest(old_exp, new_exp) ==
    \/ old_exp.kind = "none" /\ new_exp.kind # "none"
    \/ new_exp.kind # "none" /\ old_exp.kind # "none" /\ DateGT(old_exp, new_exp)

\* the condition under which the new row replaces the old one
ReplacesOld(old_exp, new_exp) ==
    \/ old_exp.kind = "none" /\ new_exp.kind # "none"
    \/ new_exp.kind # "none" /\ old_exp.kind # "none" /\ DateGT(new_exp, old_exp)

\* best_per_cert is the dict in insertion order: a sequence of [key, row]
\* best_per_cert.get(key): the position of the key, 0 standing for None
DictFind(best, key) ==
    IF \E i \in 1..Len(best) : best[i].key = key
    THEN CHOOSE i \in 1..Len(best) : best[i].key = key
    ELSE 0

\* a slip in the grouping: every row is stored as if its key were new
DedupRow_no_group(best, row) == Append(best, [key |-> KeyOf(row), row |-> row])

\* a slip in the replacement: the old entry is deleted and the new row is stored
\* as a new entry, at the end of the dict
DedupRow_move_to_end(best, row) ==
    LET key == KeyOf(row)
        new_exp == _parse_yyyy_mm_dd(row.ExpiryDate)
        i == DictFind(best, key)
    IN  IF i = 0 THEN Append(best, [key |-> key, row |-> row])
        ELSE IF ReplacesOld(_parse_yyyy_mm_dd(best[i].row.ExpiryDate), new_exp)
             THEN Append(SubSeq(best, 1, i - 1) \o SubSeq(best, i + 1, Len(best)),
                         [key |-> key, row |-> row])
             ELSE best

\* the body of the deduplication loop for one row
DedupRow(best, row) ==
    LET key == KeyOf(row)
        new_exp == _parse_yyyy_mm_dd(row.ExpiryDate)
        i == DictFind(best, key)
    IN  IF i = 0 THEN Append(best, [key |-> key, row |-> row])
        ELSE IF ReplacesOld(_parse_yyyy_mm_dd(best[i].row.ExpiryDate), new_exp)
             THEN [best EXCEPT ![i].row = row]
             ELSE best

\* the whole deduplication loop over rows, from row i on
RECURSIVE DedupFrom(_, _, _)
DedupFrom(best, rows, i) ==
    IF i > Len(rows) THEN best ELSE DedupFrom(DedupRow(best, rows[i]), rows, i + 1)

\* best_per_cert.values(), in the order the rows are written
DictValues(best) == [i \in 1..Len(best) |-> best[i].row]

-----------------------------------------------------------------------------
(* The parts of the state a specification does not use stay idle *)

IdleSap == sapIn = NoneVal /\ sapOut = <<>> /\ sapPc = "idle"

IdleDate == dateIn = NoneVal /\ dateOut = <<>> /\ dateOut2 = <<>> /\ datePc = "idle"

NoColumns ==
    [iEmp |-> 0, iSvc |-> 0, iGID |-> 0, iSAP |-> 0, iCert |-> 0,
     iIss |-> 0, iExp |-> 0, iFut |-> 0, iLink |-> 0]

IdleCert ==
    /\ certPc = "idle" /\ ws = <<>> /\ ix = NoColumns /\ r = 0
    /\ raw_rows = <<>> /\ raw_from = <<>> /\ di = 0 /\ best_per_cert = <<>>
    /\ out_rows = <<>> /\ dstExists = FALSE

IdleHdr ==
    /\ hdrPc = "idle" /\ hdrA = <<>> /\ hdrB = <<>> /\ mpA = EmptyMap /\ mpB = EmptyMap
    /\ hdrNames = <<>> /\ idxA = 0 /\ idxB = 0 /\ recipe = "none" /\ iLink = 0

NoFile == [exists |-> FALSE, mtime |-> 0, size |-> 0, access |-> "ok"]

NoCall == [outcome |-> "none", ret |-> "none", produced |-> "none"]

IdleXls ==
    /\ xPc = "idle" /\ xCaller = "none" /\ xSuffix = <<>> /\ haveXlrd = FALSE /\ HAVE_COM = FALSE
    /\ srcMtime = 0 /\ sib = NoFile /\ sibAtEntry = NoFile /\ xRet = "none" /\ bestInput = "none"
    /\ excel = FALSE /\ wb = FALSE /\ success = FALSE /\ comFailed = "none" /\ comLog = <<>>
    /\ strategies = {} /\ produced = "none" /\ calls = 0 /\ prevCall = NoCall

\* the dataset kinds in the order main handles them
Datasets == <<"certs", "comps", "train", "certres">>

AllPending == [dk \in DOMAIN Datasets |-> "pending"]

IdleStaff ==
    /\ sPc = "idle" /\ staffCom = FALSE /\ masterExists = FALSE
    /\ staff_excel = "none" /\ staff_wb = "none" /\ new_wb = "none" /\ wbLocal = FALSE
    /\ sLog = <<>>

IdleMain ==
    /\ mPc = "idle" /\ located = AllPending /\ convResult = AllPending /\ trace = <<>>
    /\ IdleStaff

IdleOld == padY = TRUE /\ IdleSap /\ IdleDate /\ IdleCert

NoResColumns ==
    [iGID |-> 0, iNaam |-> 0, iOrg |-> 0, iCert |-> 0, iStatus |-> 0, iBeh |-> 0, iBeg |-> 0,
     iEind |-> 0, iGeld |-> 0, iSvc |-> 0, iMgr |-> 0, iMgrGID |-> 0, iProg |-> 0, iLink |-> 0]

IdleRes ==
    /\ resPc = "idle"
    /\ resDstBefore = FALSE
    /\ resDst = FALSE
    /\ staffFile = "missing"
    /\ staffSheet = <<>>
    /\ gid_to_sap = <<>>
    /\ resWs = <<>>
    /\ resIx = NoResColumns
    /\ rr = 0
    /\ res_rows = <<>>
    /\ missing_gid = 0
    /\ tables = <<>>

NoTrainColumns ==
    [iName |-> 0, iGID |-> 0, iEmpNr |-> 0, iService |-> 0, iCertName |-> 0, iCategorie |-> 0,
     iStatut |-> 0, iDatum |-> 0, iDuration |-> 0, iLang |-> 0, iLocation |-> 0, iSite |-> 0]

IdleTrain ==
    /\ trPc = "idle"
    /\ trDst = FALSE
    /\ trWs = <<>>
    /\ trIx = NoTrainColumns
    /\ tRow = 0
    /\ tr_rows = <<>>
    /\ missing = <<>>
    /\ trReads = {}

IdleFind ==
    /\ fPc = "idle"
    /\ inbox0 = <<>>
    /\ INBOX = <<>>
    /\ cands = <<>>
    /\ fBest = [stem |-> "", ext |-> ""]
    /\ fConv = "none"

IdleDl ==
    /\ dPc = "idle"
    /\ dScript = "none"
    /\ headless = FALSE
    /\ attempt = 0
    /\ last_err = 0
    /\ last_shot = FALSE
    /\ dLog = <<>>
    /\ ctxOpen = FALSE
    /\ browserOpen = FALSE
    /\ exitCode = -1

IdleSilent ==
    /\ lPc = "idle"
    /\ authResult = "false"
    /\ converterExists = FALSE
    /\ scriptIx = 0
    /\ started = <<>>
    /\ results = <<>>
    /\ converter_rc = 1
    /\ sysIo = "own"
    /\ silentRet = -1

IdleNew == IdleHdr /\ IdleXls /\ IdleMain /\ IdleRes /\ IdleTrain /\ IdleFind /\ IdleDl /\ IdleSilent

IdleNotHdr == IdleOld /\ IdleXls /\ IdleMain /\ IdleRes /\ IdleTrain /\ IdleFind /\ IdleDl /\ IdleSilent

IdleNotXls == IdleOld /\ IdleHdr /\ IdleMain /\ IdleRes /\ IdleTrain /\ IdleFind /\ IdleDl /\ IdleSilent

IdleNotMain == IdleOld /\ IdleHdr /\ IdleXls /\ IdleRes /\ IdleTrain /\ IdleFind /\ IdleDl /\ IdleSilent

IdleNotRes == IdleOld /\ IdleHdr /\ IdleXls /\ IdleMain /\ IdleTrain /\ IdleFind /\ IdleDl /\ IdleSilent

IdleNotTrain == IdleOld /\ IdleHdr /\ IdleXls /\ IdleMain /\ IdleRes /\ IdleFind /\ IdleDl /\ IdleSilent

IdleNotFind == IdleOld /\ IdleHdr /\ IdleXls /\ IdleMain /\ IdleRes /\ IdleTrain /\ IdleDl /\ IdleSilent

IdleNotDl == IdleOld /\ IdleHdr /\ IdleXls /\ IdleMain /\ IdleRes /\ IdleTrain /\ IdleFind /\ IdleSilent

IdleNotSilent == IdleOld /\ IdleHdr /\ IdleXls /\ IdleMain /\ IdleRes /\ IdleTrain /\ IdleFind /\ IdleDl

-----------------------------------------------------------------------------
(* Inputs of the identifier normalizer *)

SapAlphabet == {"1", "2", "S", " "}

S_SAP_00123 == <<"S", "A", "P", "-", "0", "0", "1", "2", "3">>

SapTexts ==
    UNION {[1..len -> SapAlphabet] : len \in 0..MaxSapLen}
    \cup {S_SAP_00123, <<"1", "2">>, <<"0", "0", "0", "1", "2", "3", "4", "5", "6">>}

SapNums == {0, 7, 12345, 1234567, -123456}

SapInputs == {NoneVal} \cup {StrVal(t) : t \in SapTexts} \cup {NumVal(i) : i \in SapNums}

-----------------------------------------------------------------------------
(* Specification of the identifier normalizer alone *)

InitSap ==
    /\ padY = TRUE
    /\ sapIn \in SapInputs
    /\ sapOut = <<>>
    /\ sapPc = "in"
    /\ IdleDate /\ IdleCert /\ IdleNew

CallNormalizeSapnr ==
    /\ sapPc = "in"
    /\ sapOut' = normalize_sapnr(sapIn)
    /\ sapPc' = "out"
    /\ UNCHANGED <<newVars, padY, sapIn, dateVars, certVars>>

NextSap == CallNormalizeSapnr

SpecSap == InitSap /\ [][NextSap]_vars

-----------------------------------------------------------------------------
(* Inputs of the date normalizer *)

DateFieldTexts ==
    {<<"2", "0", "2", "4">>,
     <<"0", "9", "9", "9">>,
     <<"6", "9">>,
     <<"2", "4">>,
     <<"1">>,
     <<"0", "1">>,
     <<"1", "2">>,
     <<"1", "3">>,
     <<"3", "1">>,
     <<"0", "2">>}

DateSeparators == {<<"-">>, <<"/">>, <<".">>, <<>>}

\* three groups of digits with two separators: every pattern, and their near misses
DatePatternTexts ==
    {a \o p \o b \o q \o c : a \in DateFieldTexts, b \in DateFieldTexts, c \in DateFieldTexts,
                             p \in DateSeparators, q \in DateSeparators}

DateOtherTexts ==
    {<<" ", "N", "V", "T", " ">>,
     <<"O", "n", "b", "e", "p", "e", "r", "k", "t">>,
     <<"n", ".", "v", ".", "t">>,
     <<"U", "N", "L", "I", "M", "I", "T", "E", "D">>,
     <<"n", ".", "v", ".", "t", ".">>,
     <<"a", "b", "c">>,
     <<>>,
     <<" ">>,
     <<" ", "2", "0", "2", "4", "-", "0", "1", "-", "0", "5", " ">>,
     <<"2", "0", "2", "4", "-", "0", "1", "-", " ", "5">>,
     <<"2", "0", "2", "4", "-", "0", "2", "-", "2", "9">>,
     <<"2", "0", "2", "3", "-", "0", "2", "-", "2", "9">>,
     <<"0", "0", "0", "0", "-", "0", "1", "-", "0", "1">>,
     <<"2", "0", "2", "5", "-", "0", "6", "-", "0", "1">>,
     <<"1", "2", ":", "3", "0", ":", "0", "0">>}

DateTimes ==
    {DateVal(yy, mm, dd) : yy \in {999, 2023, 2024}, mm \in 1..12, dd \in {1, 15, 28}}
    \cup {DateVal(2024, 2, 29), DateVal(2024, 12, 31), DateVal(2025, 6, 1)}

DateInputs ==
    {NoneVal} \cup DateTimes \cup {NumVal(i) : i \in {0, 45000, 20240105}}
    \cup {StrVal(t) : t \in DatePatternTexts \cup DateOtherTexts}

-----------------------------------------------------------------------------
(* Specification of the date normalizer alone *)

InitDate ==
    /\ padY \in BOOLEAN
    /\ dateIn \in DateInputs
    /\ dateOut = <<>>
    /\ dateOut2 = <<>>
    /\ datePc = "in"
    /\ IdleSap /\ IdleCert /\ IdleNew

CallNormalizeDate ==
    /\ datePc = "in"
    /\ dateOut' = normalize_date(dateIn)
    /\ datePc' = "once"
    /\ UNCHANGED <<newVars, padY, dateIn, dateOut2, sapVars, certVars>>

\* the result is normalized again, as a value read back from an output would be
CallNormalizeDateAgain ==
    /\ datePc = "once"
    /\ dateOut2' = normalize_date(StrVal(dateOut))
    /\ datePc' = "twice"
    /\ UNCHANGED <<newVars, padY, dateIn, dateOut, sapVars, certVars>>

NextDate == CallNormalizeDate \/ CallNormalizeDateAgain

SpecDate == InitDate /\ [][NextDate]_vars

-----------------------------------------------------------------------------
(* Source sheets of convert_certificates *)

\* most data rows of a source sheet
MaxRows == 3

\* Dutch headers, the link column H without a header
Header_NL ==
    <<[value |-> StrVal(<<"N", "a", "a", "m">>), hyperlink |-> <<>>],
      [value |-> StrVal(<<"D", "i", "e", "n", "s", "t">>), hyperlink |-> <<>>],
      [value |-> StrVal(<<"G", "r", "o", "u", "p", " ", "I", "D">>), hyperlink |-> <<>>],
      [value |-> StrVal(<<"S", "A", "P", " ", "n", "r">>), hyperlink |-> <<>>],
      [value |-> StrVal(<<"C", "e", "r", "t", "i", "f", "i", "c", "a", "a", "t">>), hyperlink |-> <<>>],
      [value |-> StrVal(<<"B", "e", "h", "a", "a", "l", "d", " ", "o", "p">>), hyperlink |-> <<>>],
      [value |-> StrVal(<<"V", "e", "r", "l", "o", "o", "p", "t", " ", "o", "p">>), hyperlink |-> <<>>],
      [value |-> NoneVal, hyperlink |-> <<>>],
      [value |-> StrVal(<<"T", "o", "e", "k", "o", "m", "s", "t", "i", "g", "e", " ", "c", "e", "r", "t", "i", "f", "i", "c", "a", "t", "e", "n">>), hyperlink |-> <<>>]>>

\* English headers in other case and with blanks; the expiry column has a label
\* that is no synonym
Header_EN ==
    <<[value |-> StrVal(<<" ", "N", "a", "m", "e", " ">>), hyperlink |-> <<>>],
      [value |-> StrVal(<<"S", "E", "R", "V", "I", "C", "E">>), hyperlink |-> <<>>],
      [value |-> StrVal(<<"G", "l", "o", "b", "a", "l", "I", "D">>), hyperlink |-> <<>>],
      [value |-> StrVal(<<"E", "m", "p", "l", "o", "y", "e", "e", " ", "N", "r">>), hyperlink |-> <<>>],
      [value |-> StrVal(<<"C", "e", "r", "t", "N", "a", "m", "e">>), hyperlink |-> <<>>],
      [value |-> StrVal(<<"I", "s", "s", "u", "e", "d", "D", "a", "t", "e">>), hyperlink |-> <<>>],
      [value |-> StrVal(<<"V", "e", "r", "v", "a", "l", "d", "a", "t", "u", "m">>), hyperlink |-> <<>>],
      [value |-> StrVal(<<"L", "i", "n", "k">>), hyperlink |-> <<>>],
      [value |-> StrVal(<<"F", "u", "t", "u", "r", "e">>), hyperlink |-> <<>>]>>

\* person G1, certificate VCA, expiry a calendar date
Row_G1_2024 ==
    <<[value |-> StrVal(<<"A", "n">>), hyperlink |-> <<>>],
      [value |-> StrVal(<<"P", "1">>), hyperlink |-> <<>>],
      [value |-> StrVal(<<"G", "1">>), hyperlink |-> <<>>],
      [value |-> StrVal(<<"S", "A", "P", "-", "0", "0", "1", "2", "3", "4", "5">>), hyperlink |-> <<>>],
      [value |-> StrVal(<<"E", "Q", "U", "A", "N", "S", "_", "V", "C", "A">>), hyperlink |-> <<>>],
      [value |-> DateVal(2023, 1, 1), hyperlink |-> <<>>],
      [value |-> DateVal(2024, 1, 1), hyperlink |-> <<>>],
      [value |-> NoneVal, hyperlink |-> <<"h", "t", "t", "p", ":", "/", "/", "a">>],
      [value |-> NoneVal, hyperlink |-> <<>>]>>

\* the same, expiry a later date written day first
Row_G1_2025 ==
    <<[value |-> StrVal(<<"A", "n">>), hyperlink |-> <<>>],
      [value |-> StrVal(<<"P", "1">>), hyperlink |-> <<>>],
      [value |-> StrVal(<<"G", "1">>), hyperlink |-> <<>>],
      [value |-> StrVal(<<"S", "A", "P", "-", "0", "0", "1", "2", "3", "4", "5">>), hyperlink |-> <<>>],
      [value |-> StrVal(<<"E", "Q", "U", "A", "N", "S", "_", "V", "C", "A">>), hyperlink |-> <<>>],
      [value |-> DateVal(2023, 1, 1), hyperlink |-> <<>>],
      [value |-> StrVal(<<"0", "1", "/", "0", "6", "/", "2", "0", "2", "5">>), hyperlink |-> <<>>],
      [value |-> NoneVal, hyperlink |-> <<"h", "t", "t", "p", ":", "/", "/", "a">>],
      [value |-> NoneVal, hyperlink |-> <<>>]>>

\* the same, expiry a text that is no date
Row_G1_text ==
    <<[value |-> StrVal(<<"A", "n">>), hyperlink |-> <<>>],
      [value |-> StrVal(<<"P", "1">>), hyperlink |-> <<>>],
      [value |-> StrVal(<<"G", "1">>), hyperlink |-> <<>>],
      [value |-> StrVal(<<"S", "A", "P", "-", "0", "0", "1", "2", "3", "4", "5">>), hyperlink |-> <<>>],
      [value |-> StrVal(<<"E", "Q", "U", "A", "N", "S", "_", "V", "C", "A">>), hyperlink |-> <<>>],
      [value |-> DateVal(2023, 1, 1), hyperlink |-> <<>>],
      [value |-> StrVal(<<"o", "n", "b", "e", "k", "e", "n", "d">>), hyperlink |-> <<>>],
      [value |-> NoneVal, hyperlink |-> <<"h", "t", "t", "p", ":", "/", "/", "a">>],
      [value |-> NoneVal, hyperlink |-> <<>>]>>

\* the same person and certificate, expiry 2025-06-01, another link
Row_G1_2025b ==
    <<[value |-> StrVal(<<"A", "n">>), hyperlink |-> <<>>],
      [value |-> StrVal(<<"P", "1">>), hyperlink |-> <<>>],
      [value |-> StrVal(<<"G", "1">>), hyperlink |-> <<>>],
      [value |-> StrVal(<<"S", "A", "P", "-", "0", "0", "1", "2", "3", "4", "5">>), hyperlink |-> <<>>],
      [value |-> StrVal(<<"E", "Q", "U", "A", "N", "S", "_", "V", "C", "A">>), hyperlink |-> <<>>],
      [value |-> DateVal(2023, 1, 1), hyperlink |-> <<>>],
      [value |-> StrVal(<<"2", "0", "2", "5", "-", "0", "6", "-", "0", "1">>), hyperlink |-> <<>>],
      [value |-> NoneVal, hyperlink |-> <<"h", "t", "t", "p", ":", "/", "/", "b">>],
      [value |-> NoneVal, hyperlink |-> <<>>]>>

\* no group identifier: the identifier number is the person
Row_Sap ==
    <<[value |-> StrVal(<<"A", "n">>), hyperlink |-> <<>>],
      [value |-> StrVal(<<"P", "1">>), hyperlink |-> <<>>],
      [value |-> NoneVal, hyperlink |-> <<>>],
      [value |-> NumVal(12345), hyperlink |-> <<>>],
      [value |-> StrVal(<<"V", "C", "A">>), hyperlink |-> <<>>],
      [value |-> DateVal(2023, 1, 1), hyperlink |-> <<>>],
      [value |-> DateVal(2024, 1, 1), hyperlink |-> <<>>],
      [value |-> NoneVal, hyperlink |-> <<"h", "t", "t", "p", ":", "/", "/", "a">>],
      [value |-> NoneVal, hyperlink |-> <<>>]>>

\* no identifier at all: the name is the person
Row_Name ==
    <<[value |-> StrVal(<<"A", "n">>), hyperlink |-> <<>>],
      [value |-> StrVal(<<"P", "1">>), hyperlink |-> <<>>],
      [value |-> NoneVal, hyperlink |-> <<>>],
      [value |-> NoneVal, hyperlink |-> <<>>],
      [value |-> StrVal(<<" ", "V", "C", "A">>), hyperlink |-> <<>>],
      [value |-> DateVal(2023, 1, 1), hyperlink |-> <<>>],
      [value |-> DateVal(2024, 1, 1), hyperlink |-> <<>>],
      [value |-> NoneVal, hyperlink |-> <<"h", "t", "t", "p", ":", "/", "/", "a">>],
      [value |-> NoneVal, hyperlink |-> <<>>]>>

\* a group identifier that reads like the identifier number of Row_Sap
Row_GidIsSap ==
    <<[value |-> StrVal(<<"A", "n">>), hyperlink |-> <<>>],
      [value |-> StrVal(<<"P", "1">>), hyperlink |-> <<>>],
      [value |-> StrVal(<<"1", "2", "3", "4", "5">>), hyperlink |-> <<>>],
      [value |-> NoneVal, hyperlink |-> <<>>],
      [value |-> StrVal(<<"V", "C", "A">>), hyperlink |-> <<>>],
      [value |-> DateVal(2023, 1, 1), hyperlink |-> <<>>],
      [value |-> StrVal(<<"n", ".", "v", ".", "t">>), hyperlink |-> <<>>],
      [value |-> NoneVal, hyperlink |-> <<"h", "t", "t", "p", ":", "/", "/", "a">>],
      [value |-> NoneVal, hyperlink |-> <<>>]>>

\* an empty row
Row_Empty ==
    <<[value |-> NoneVal, hyperlink |-> <<>>],
      [value |-> NoneVal, hyperlink |-> <<>>],
      [value |-> NoneVal, hyperlink |-> <<>>],
      [value |-> NoneVal, hyperlink |-> <<>>],
      [value |-> NoneVal, hyperlink |-> <<>>],
      [value |-> NoneVal, hyperlink |-> <<>>],
      [value |-> NoneVal, hyperlink |-> <<>>],
      [value |-> NoneVal, hyperlink |-> <<>>],
      [value |-> NoneVal, hyperlink |-> <<>>]>>

\* a row whose only content is the number 0 in the Future column
Row_Zero ==
    <<[value |-> NoneVal, hyperlink |-> <<>>],
      [value |-> NoneVal, hyperlink |-> <<>>],
      [value |-> NoneVal, hyperlink |-> <<>>],
      [value |-> NoneVal, hyperlink |-> <<>>],
      [value |-> NoneVal, hyperlink |-> <<>>],
      [value |-> NoneVal, hyperlink |-> <<>>],
      [value |-> NoneVal, hyperlink |-> <<>>],
      [value |-> NoneVal, hyperlink |-> <<>>],
      [value |-> NumVal(0), hyperlink |-> <<>>]>>

\* a number in the certificate column
Row_NumCert ==
    <<[value |-> StrVal(<<"A", "n">>), hyperlink |-> <<>>],
      [value |-> StrVal(<<"P", "1">>), hyperlink |-> <<>>],
      [value |-> StrVal(<<"G", "1">>), hyperlink |-> <<>>],
      [value |-> StrVal(<<"S", "A", "P", "-", "0", "0", "1", "2", "3", "4", "5">>), hyperlink |-> <<>>],
      [value |-> NumVal(7), hyperlink |-> <<>>],
      [value |-> DateVal(2023, 1, 1), hyperlink |-> <<>>],
      [value |-> DateVal(2024, 1, 1), hyperlink |-> <<>>],
      [value |-> NoneVal, hyperlink |-> <<"h", "t", "t", "p", ":", "/", "/", "a">>],
      [value |-> NoneVal, hyperlink |-> <<>>]>>

DataRows ==
    {Row_G1_2024,
     Row_G1_2025,
     Row_G1_text,
     Row_G1_2025b,
     Row_Sap,
     Row_Name,
     Row_GidIsSap,
     Row_Empty,
     Row_Zero,
     Row_NumCert}

Sheets ==
    {<<h>> \o rows : h \in {Header_NL, Header_EN},
                     rows \in UNION {[1..n -> DataRows] : n \in 0..MaxRows}}

-----------------------------------------------------------------------------
(* convert_certificates, one step at a time *)

\* no candidate row has a year below 1000: the padding of %Y cannot show here
Init ==
    /\ padY = TRUE
    /\ IdleSap /\ IdleDate /\ IdleNew
    /\ certPc = "start"
    /\ ws \in Sheets
    /\ ix = NoColumns
    /\ r = 0
    /\ raw_rows = <<>> /\ raw_from = <<>>
    /\ di = 0
    /\ best_per_cert = <<>>
    /\ out_rows = <<>>
    /\ dstExists \in BOOLEAN

\* the old output is deleted, the workbook loaded, the header resolved
StartCertificates ==
    /\ certPc = "start"
    /\ dstExists' = FALSE
    /\ ix' = ResolveCertColumns(ws)
    /\ r' = 2
    /\ certPc' = "read"
    /\ UNCHANGED <<newVars, padY, sapVars, dateVars, ws, raw_rows, raw_from, di, best_per_cert, out_rows>>

\* one turn of the reading loop: the row is normalized and appended
ReadRowKeep ==
    /\ certPc = "read" /\ r <= WsMaxRow(ws)
    /\ ~CertNameRaises(FieldValue(ws, r, ix.iCert))
    /\ AnyField(ReadRecord(ws, ix, r))
    /\ raw_rows' = Append(raw_rows, ReadRecord(ws, ix, r))
    /\ raw_from' = Append(raw_from, r)
    /\ r' = r + 1
    /\ UNCHANGED <<newVars, padY, sapVars, dateVars, certPc, ws, ix, di, best_per_cert, out_rows, dstExists>>

\* one turn of the reading loop: the row has no field and is skipped
ReadRowSkip ==
    /\ certPc = "read" /\ r <= WsMaxRow(ws)
    /\ ~CertNameRaises(FieldValue(ws, r, ix.iCert))
    /\ ~AnyField(ReadRecord(ws, ix, r))
    /\ r' = r + 1
    /\ UNCHANGED <<newVars, padY, sapVars, dateVars, certPc, ws, ix, raw_rows, raw_from, di,
                   best_per_cert, out_rows, dstExists>>

\* normalize_certname raises: the exception leaves convert_certificates
ReadRowRaise ==
    /\ certPc = "read" /\ r <= WsMaxRow(ws)
    /\ CertNameRaises(FieldValue(ws, r, ix.iCert))
    /\ certPc' = "raised"
    /\ UNCHANGED <<newVars, padY, sapVars, dateVars, ws, ix, r, raw_rows, raw_from, di,
                   best_per_cert, out_rows, dstExists>>

\* the reading loop is over, the deduplication starts with an empty dict
BeginDedup ==
    /\ certPc = "read" /\ r > WsMaxRow(ws)
    /\ best_per_cert' = <<>>
    /\ di' = 1
    /\ certPc' = "dedup"
    /\ UNCHANGED <<newVars, padY, sapVars, dateVars, ws, ix, r, raw_rows, raw_from, out_rows, dstExists>>

\* one turn of the deduplication loop
DedupNextRow ==
    /\ certPc = "dedup" /\ di <= Len(raw_rows)
    /\ best_per_cert' = DedupRow(best_per_cert, raw_rows[di])
    /\ di' = di + 1
    /\ UNCHANGED <<newVars, padY, sapVars, dateVars, certPc, ws, ix, r, raw_rows, raw_from, out_rows, dstExists>>

\* the winners are written in the order of the dict and the workbook is saved
WriteCertificates ==
    /\ certPc = "dedup" /\ di > Len(raw_rows)
    /\ out_rows' = DictValues(best_per_cert)
    /\ dstExists' = TRUE
    /\ certPc' = "done"
    /\ UNCHANGED <<newVars, padY, sapVars, dateVars, ws, ix, r, raw_rows, raw_from, di, best_per_cert>>

Next ==
    \/ StartCertificates
    \/ ReadRowKeep
    \/ ReadRowSkip
    \/ ReadRowRaise
    \/ BeginDedup
    \/ DedupNextRow
    \/ WriteCertificates

Spec == Init /\ [][Next]_vars

-----------------------------------------------------------------------------
(* Header Resolver: ws_headers_index and _idx on two header rows *)

\* columns of a header row
MaxCols == 2

S_naam == <<"n", "a", "a", "m">>
S_name == <<"n", "a", "m", "e">>

\* header cells: nothing, and two labels in different case and with blanks around
HdrCells ==
    {[value |-> v, hyperlink |-> <<>>] :
        v \in {NoneVal,
               StrVal(S_naam),
               StrVal(<<" ", "N", "a", "a", "m", " ">>),
               StrVal(<<"N", "A", "M", "E">>),
               StrVal(<<"n", "a", "m", "e", "\t">>)}}

\* sheets of one row, the header row
HdrSheets == {<<row>> : row \in [1..MaxCols -> HdrCells]}

\* the synonym tuples of the lookups
HdrSynonyms == {Syn_Emp, Syn_Cert}

IdleLink == recipe = "none" /\ iLink = 0

InitHdr ==
    /\ IdleNotHdr /\ IdleLink
    /\ hdrPc = "start"
    /\ hdrA \in HdrSheets
    /\ hdrB \in HdrSheets
    /\ hdrNames \in HdrSynonyms
    /\ mpA = EmptyMap /\ mpB = EmptyMap
    /\ idxA = 0 /\ idxB = 0

\* mp = ws_headers_index(ws), for both sheets
CallHeadersIndex ==
    /\ hdrPc = "start"
    /\ mpA' = ws_headers_index(hdrA, 1)
    /\ mpB' = ws_headers_index(hdrB, 1)
    /\ hdrPc' = "indexed"
    /\ UNCHANGED <<notHdr, hdrA, hdrB, hdrNames, idxA, idxB,
                   recipe, iLink>>

\* i = _idx(mp, names), for both maps
CallIdx ==
    /\ hdrPc = "indexed"
    /\ idxA' = _idx(mpA, hdrNames)
    /\ idxB' = _idx(mpB, hdrNames)
    /\ hdrPc' = "looked"
    /\ UNCHANGED <<notHdr, hdrA, hdrB, hdrNames, mpA, mpB,
                   recipe, iLink>>

NextHdr ==
    \/ CallHeadersIndex
    \/ CallIdx

SpecHdr == InitHdr /\ [][NextHdr]_vars

-----------------------------------------------------------------------------
(* Header Resolver: the link field of the three recipes that have one *)

\* convert_competences: the synonyms of iLink
Syn_Link_Comp ==
    <<<<"d", "o", "w", "n", "l", "o", "a", "d", "l", "i", "n", "k">>,
      <<"d", "r", "u", "k", " ", "c", "e", "r", "t", "i", "f", "i", "c", "a", "a", "t">>,
      <<"p", "r", "i", "n", "t", " ", "c", "e", "r", "t", "i", "f", "i", "c", "a", "t", "e">>,
      <<"l", "i", "n", "k">>,
      <<"u", "r", "l">>,
      <<"p", "r", "o", "g", "r", "a", "m">>>>

\* convert_cert_results: the synonyms of iLink
Syn_Link_Res ==
    <<<<"d", "o", "w", "n", "l", "o", "a", "d">>,
      <<"d", "o", "w", "n", "l", "o", "a", "d", "l", "i", "n", "k">>,
      <<"d", "o", "w", "n", "l", "o", "a", "d", " ", "l", "i", "n", "k">>,
      <<"l", "i", "n", "k">>,
      <<"u", "r", "l">>>>

\* convert_competences: iLink, with the fallback to column H
ResolveLinkComp(sheet) ==
    LET iLink0 == _idx(ws_headers_index(sheet, 1), Syn_Link_Comp)
    IN  IF iLink0 = 0 /\ parse_hyperlink_cell(WsCell(sheet, 2, LinkFallbackColumn)) # <<>>
        THEN LinkFallbackColumn
        ELSE iLink0

\* the end of range(1, min(ws.max_column + 1, 20))
ProbeRangeEnd == 20

\* convert_cert_results: the detection loop from test_col on
RECURSIVE ProbeFrom(_, _)
ProbeFrom(sheet, test_col) ==
    IF test_col >= (IF WsMaxColumn(sheet) + 1 < ProbeRangeEnd THEN WsMaxColumn(sheet) + 1
                    ELSE ProbeRangeEnd)
    THEN 0
    ELSE IF parse_hyperlink_cell(WsCell(sheet, 2, test_col)) # <<>> THEN test_col
    ELSE ProbeFrom(sheet, test_col + 1)

\* convert_cert_results: iLink, with the detection of the column
ResolveLinkRes(sheet) ==
    LET iLink0 == _idx(ws_headers_index(sheet, 1), Syn_Link_Res)
    IN  IF iLink0 = 0 THEN ProbeFrom(sheet, 1) ELSE iLink0

\* columns of a sheet of the link resolution
LinkSheetCols == 20

\* the columns whose cells vary: C, H and the last one
LinkMarks == {3, LinkFallbackColumn, LinkSheetCols}

S_httpA == <<"h", "t", "t", "p", ":", "/", "/", "a">>

\* cells of data row 2: empty, a plain text, a text that is a URL, a hyperlink
LinkCells ==
    {EmptyCell,
     [value |-> StrVal(<<"x">>), hyperlink |-> <<>>],
     [value |-> StrVal(S_httpA), hyperlink |-> <<>>],
     [value |-> StrVal(<<"p", "d", "f">>), hyperlink |-> S_httpA]}

\* header rows: no link label, or the label " LINK " in column C or in the last
LinkHeaders ==
    {[c \in 1..LinkSheetCols |->
        IF c = at THEN [value |-> StrVal(<<" ", "L", "I", "N", "K", " ">>), hyperlink |-> <<>>]
        ELSE EmptyCell] : at \in {0, 3, LinkSheetCols}}

LinkDataRows ==
    {[c \in 1..LinkSheetCols |-> IF c \in LinkMarks THEN f[c] ELSE EmptyCell] :
        f \in [LinkMarks -> LinkCells]}

\* a header row alone, or a header row and one data row
LinkSheets == {<<h>> : h \in LinkHeaders} \cup {<<h, d>> : h \in LinkHeaders, d \in LinkDataRows}

LinkRecipes == {"certificates", "competences", "cert_results"}

InitLink ==
    /\ IdleNotHdr
    /\ hdrPc = "probe"
    /\ hdrA \in LinkSheets
    /\ hdrB = <<>>
    /\ hdrNames = <<>>
    /\ mpA = EmptyMap /\ mpB = EmptyMap
    /\ idxA = 0 /\ idxB = 0
    /\ recipe \in LinkRecipes
    /\ iLink = 0

\* convert_certificates resolves its link field
ResolveLinkCertificates ==
    /\ hdrPc = "probe" /\ recipe = "certificates"
    /\ iLink' = ResolveCertColumns(hdrA).iLink
    /\ hdrPc' = "resolved"
    /\ UNCHANGED <<notHdr, hdrA, hdrB, mpA, mpB, hdrNames, idxA, idxB,
                   recipe>>

\* convert_competences resolves its link field
ResolveLinkCompetences ==
    /\ hdrPc = "probe" /\ recipe = "competences"
    /\ iLink' = ResolveLinkComp(hdrA)
    /\ hdrPc' = "resolved"
    /\ UNCHANGED <<notHdr, hdrA, hdrB, mpA, mpB, hdrNames, idxA, idxB,
                   recipe>>

\* convert_cert_results resolves its link field
ResolveLinkCertResults ==
    /\ hdrPc = "probe" /\ recipe = "cert_results"
    /\ iLink' = ResolveLinkRes(hdrA)
    /\ hdrPc' = "resolved"
    /\ UNCHANGED <<notHdr, hdrA, hdrB, mpA, mpB, hdrNames, idxA, idxB,
                   recipe>>

NextLink ==
    \/ ResolveLinkCertificates
    \/ ResolveLinkCompetences
    \/ ResolveLinkCertResults

SpecLink == InitLink /\ [][NextLink]_vars

-----------------------------------------------------------------------------
(* Format Normalizer: ensure_xlsx_from_xls and its caller find_latest_input *)

\* calls of ensure_xlsx_from_xls in one behaviour
MaxCalls == 2

S_dot_xls == <<".", "x", "l", "s">>

\* xls_path.suffix.lower() == '.xls'
IsLegacy(suffix) == Lower(suffix) = S_dot_xls

XlsSuffixes == {S_dot_xls, <<".", "X", "L", "S">>, <<".", "x", "l", "s", "x">>}

\* what the sibling can be when a behaviour starts: absent, or a file that is
\* older than, as old as or newer than the source, empty or not, which can be
\* read and deleted, or cannot be stat-ed, or cannot be deleted
SiblingFiles ==
    {NoFile} \cup
    {[exists |-> TRUE, mtime |-> t, size |-> z, access |-> a] :
        t \in 0..2, z \in 0..1, a \in {"ok", "nostat", "nounlink"}}

\* the file a strategy writes now: newer than the source, with content
WrittenFile == [exists |-> TRUE, mtime |-> srcMtime + 1, size |-> 1, access |-> "ok"]

\* what a strategy that raises can leave behind: the file as it was, or a file
\* it had begun to write
LeftBehind ==
    {sib} \cup {[exists |-> TRUE, mtime |-> srcMtime + 1, size |-> z, access |-> "ok"] : z \in 0..1}

\* the source was written before the run started; its sibling is another file
\* only if the source is a legacy file
InitXls ==
    /\ IdleNotXls
    /\ xPc = "ready" /\ xCaller = "none"
    /\ xSuffix \in XlsSuffixes
    /\ haveXlrd \in BOOLEAN /\ HAVE_COM \in BOOLEAN
    /\ srcMtime = 1
    /\ sib \in (IF IsLegacy(xSuffix) THEN SiblingFiles ELSE {NoFile})
    /\ sibAtEntry = NoFile /\ xRet = "none" /\ bestInput = "none"
    /\ excel = FALSE /\ wb = FALSE /\ success = FALSE /\ comFailed = "none" /\ comLog = <<>>
    /\ strategies = {} /\ produced = "none" /\ calls = 0 /\ prevCall = NoCall

\* ensure_xlsx_from_xls is called on the source path
CallEnsure ==
    /\ xPc = "ready" /\ calls < MaxCalls
    /\ xPc' = "entry" /\ xCaller' = "direct"
    /\ sibAtEntry' = sib
    /\ xRet' = "none" /\ excel' = FALSE /\ wb' = FALSE /\ success' = FALSE
    /\ comFailed' = "none" /\ comLog' = <<>> /\ strategies' = {} /\ produced' = "none"
    /\ calls' = calls + 1
    /\ UNCHANGED <<notXls, xSuffix, haveXlrd, HAVE_COM, srcMtime, sib, bestInput, prevCall>>

\* find_latest_input: the newest candidate needs no conversion (the source is no
\* legacy file, or its sibling is newer than it)
FindLatestInput ==
    /\ xPc = "ready"
    /\ ~(sib.exists /\ sib.access = "nostat")
    /\ ~IsLegacy(xSuffix) \/ (sib.exists /\ sib.mtime > srcMtime)
    /\ bestInput' = (IF IsLegacy(xSuffix) THEN "sibling" ELSE "src")
    /\ xCaller' = "find"
    /\ xPc' = "found"
    /\ UNCHANGED <<notXls, xSuffix, haveXlrd, HAVE_COM, srcMtime, sib, sibAtEntry, xRet, excel,
                   wb, success, comFailed, comLog, strategies, produced, calls, prevCall>>

\* find_latest_input: f.stat() raises while the candidates are sorted
FindLatestInputRaises ==
    /\ xPc = "ready"
    /\ sib.exists /\ sib.access = "nostat"
    /\ xCaller' = "find"
    /\ xPc' = "find_raised"
    /\ UNCHANGED <<notXls, xSuffix, haveXlrd, HAVE_COM, srcMtime, sib, sibAtEntry, xRet,
                   bestInput, excel, wb, success, comFailed, comLog, strategies, produced,
                   calls, prevCall>>

\* find_latest_input: the newest candidate is the legacy source, it is converted
FindCallsEnsure ==
    /\ xPc = "ready" /\ calls < MaxCalls
    /\ ~(sib.exists /\ sib.access = "nostat")
    /\ IsLegacy(xSuffix) /\ ~(sib.exists /\ sib.mtime > srcMtime)
    /\ xPc' = "entry" /\ xCaller' = "find"
    /\ sibAtEntry' = sib
    /\ xRet' = "none" /\ excel' = FALSE /\ wb' = FALSE /\ success' = FALSE
    /\ comFailed' = "none" /\ comLog' = <<>> /\ strategies' = {} /\ produced' = "none"
    /\ calls' = calls + 1
    /\ UNCHANGED <<notXls, xSuffix, haveXlrd, HAVE_COM, srcMtime, sib, bestInput, prevCall>>

\* a path that is no legacy file is returned as it is
EnsureSuffixCheck ==
    /\ xPc = "entry" /\ ~IsLegacy(xSuffix)
    /\ xRet' = "src"
    /\ xPc' = "returned"
    /\ UNCHANGED <<notXls, xCaller, xSuffix, haveXlrd, HAVE_COM, srcMtime, sib, sibAtEntry,
                   bestInput, excel, wb, success, comFailed, comLog, strategies, produced,
                   calls, prevCall>>

\* a cache check that reuses the sibling only if it is newer than the source
EnsureCacheCheck_strictly_newer ==
    /\ xPc = "entry" /\ IsLegacy(xSuffix)
    /\ IF ~sib.exists \/ sib.access = "nostat"
       THEN xPc' = "primary" /\ UNCHANGED <<sib, xRet>>
       ELSE IF sib.mtime > srcMtime
       THEN xPc' = "returned" /\ xRet' = "sibling" /\ UNCHANGED sib
       ELSE IF sib.access = "nounlink"
       THEN xPc' = "primary" /\ UNCHANGED <<sib, xRet>>
       ELSE xPc' = "primary" /\ sib' = NoFile /\ UNCHANGED xRet
    /\ UNCHANGED <<notXls, xCaller, xSuffix, haveXlrd, HAVE_COM, srcMtime, sibAtEntry,
                   bestInput, excel, wb, success, comFailed, comLog, strategies, produced,
                   calls, prevCall>>

\* the cache check: an up-to-date sibling is returned, an older one is deleted;
\* an exception of stat or unlink is reported and the conversion goes on
EnsureCacheCheck ==
    /\ xPc = "entry" /\ IsLegacy(xSuffix)
    /\ IF ~sib.exists \/ sib.access = "nostat"
       THEN xPc' = "primary" /\ UNCHANGED <<sib, xRet>>
       ELSE IF sib.mtime >= srcMtime
       THEN xPc' = "returned" /\ xRet' = "sibling" /\ UNCHANGED sib
       ELSE IF sib.access = "nounlink"
       THEN xPc' = "primary" /\ UNCHANGED <<sib, xRet>>
       ELSE xPc' = "primary" /\ sib' = NoFile /\ UNCHANGED xRet
    /\ UNCHANGED <<notXls, xCaller, xSuffix, haveXlrd, HAVE_COM, srcMtime, sibAtEntry,
                   bestInput, excel, wb, success, comFailed, comLog, strategies, produced,
                   calls, prevCall>>

\* the primary strategy (xlrd and openpyxl) writes the sibling
PrimaryConverts ==
    /\ xPc = "primary" /\ haveXlrd
    /\ strategies' = strategies \cup {"primary"}
    /\ sib' = WrittenFile
    /\ produced' = "primary"
    /\ xRet' = "sibling"
    /\ xPc' = "returned"
    /\ UNCHANGED <<notXls, xCaller, xSuffix, haveXlrd, HAVE_COM, srcMtime, sibAtEntry,
                   bestInput, excel, wb, success, comFailed, comLog, calls, prevCall>>

\* import xlrd raises ImportError
PrimaryUnavailable ==
    /\ xPc = "primary" /\ ~haveXlrd
    /\ xPc' = "fallback"
    /\ UNCHANGED <<notXls, xCaller, xSuffix, haveXlrd, HAVE_COM, srcMtime, sib, sibAtEntry,
                   xRet, bestInput, excel, wb, success, comFailed, comLog, strategies, produced,
                   calls, prevCall>>

\* the primary strategy raises while it reads or saves
PrimaryRaises ==
    /\ xPc = "primary" /\ haveXlrd
    /\ strategies' = strategies \cup {"primary"}
    /\ sib' \in LeftBehind
    /\ xPc' = "fallback"
    /\ UNCHANGED <<notXls, xCaller, xSuffix, haveXlrd, HAVE_COM, srcMtime, sibAtEntry, xRet,
                   bestInput, excel, wb, success, comFailed, comLog, produced, calls, prevCall>>

\* no secondary strategy: RuntimeError
FallbackUnavailable ==
    /\ xPc = "fallback" /\ ~HAVE_COM
    /\ xPc' = "raised"
    /\ UNCHANGED <<notXls, xCaller, xSuffix, haveXlrd, HAVE_COM, srcMtime, sib, sibAtEntry,
                   xRet, bestInput, excel, wb, success, comFailed, comLog, strategies, produced,
                   calls, prevCall>>

\* the secondary strategy starts the application and sets its properties;
\* DispatchEx or a property may raise
ComStart ==
    /\ xPc = "fallback" /\ HAVE_COM
    /\ strategies' = strategies \cup {"secondary"}
    /\ \E outcome \in {"ok", "dispatch", "config"} :
          /\ excel' = (outcome # "dispatch")
          /\ comLog' = (IF outcome # "dispatch" THEN <<[op |-> "DispatchEx", ok |-> TRUE]>> ELSE <<>>)
          /\ comFailed' = (IF outcome = "ok" THEN "none" ELSE outcome)
          /\ xPc' = (IF outcome = "ok" THEN "com_open" ELSE "finally")
    /\ UNCHANGED <<notXls, xCaller, xSuffix, haveXlrd, HAVE_COM, srcMtime, sib, sibAtEntry,
                   xRet, bestInput, wb, success, produced, calls, prevCall>>

\* excel.Workbooks.Open
ComOpen ==
    /\ xPc = "com_open"
    /\ \E ok \in BOOLEAN :
          /\ wb' = ok
          /\ comLog' = Append(comLog, [op |-> "Open", ok |-> ok])
          /\ comFailed' = (IF ok THEN "none" ELSE "open")
          /\ xPc' = (IF ok THEN "com_save" ELSE "finally")
    /\ UNCHANGED <<notXls, xCaller, xSuffix, haveXlrd, HAVE_COM, srcMtime, sib, sibAtEntry,
                   xRet, bestInput, excel, success, strategies, produced, calls, prevCall>>

\* wb.SaveAs, then success = True
ComSaveAs ==
    /\ xPc = "com_save"
    /\ \E ok \in BOOLEAN :
          /\ comLog' = Append(comLog, [op |-> "SaveAs", ok |-> ok])
          /\ success' = ok
          /\ produced' = (IF ok THEN "secondary" ELSE produced)
          /\ IF ok THEN sib' = WrittenFile ELSE sib' \in LeftBehind
          /\ comFailed' = (IF ok THEN "none" ELSE "saveas")
          /\ xPc' = "finally"
    /\ UNCHANGED <<notXls, xCaller, xSuffix, haveXlrd, HAVE_COM, srcMtime, sibAtEntry, xRet,
                   bestInput, excel, wb, strategies, calls, prevCall>>

\* a cleanup that is part of the try body: nothing is closed once a step has raised
ComFinally_quit_after_success ==
    /\ xPc = "finally"
    /\ \E closeOk \in BOOLEAN, quitOk \in BOOLEAN :
          comLog' = comLog \o (IF wb /\ comFailed = "none" THEN <<[op |-> "Close", ok |-> closeOk]>> ELSE <<>>)
                           \o (IF excel /\ comFailed = "none" THEN <<[op |-> "Quit", ok |-> quitOk]>> ELSE <<>>)
    /\ wb' = FALSE /\ excel' = FALSE
    /\ xPc' = (IF comFailed # "none" THEN "raised" ELSE "check")
    /\ UNCHANGED <<notXls, xCaller, xSuffix, haveXlrd, HAVE_COM, srcMtime, sib, sibAtEntry,
                   xRet, bestInput, success, comFailed, strategies, produced, calls, prevCall>>

\* the finally block: wb.Close and excel.Quit, each in its own try, then the
\* RuntimeError of the except block goes on to the caller
ComFinally ==
    /\ xPc = "finally"
    /\ \E closeOk \in BOOLEAN, quitOk \in BOOLEAN :
          comLog' = comLog \o (IF wb THEN <<[op |-> "Close", ok |-> closeOk]>> ELSE <<>>)
                           \o (IF excel THEN <<[op |-> "Quit", ok |-> quitOk]>> ELSE <<>>)
    /\ wb' = FALSE /\ excel' = FALSE
    /\ xPc' = (IF comFailed # "none" THEN "raised" ELSE "check")
    /\ UNCHANGED <<notXls, xCaller, xSuffix, haveXlrd, HAVE_COM, srcMtime, sib, sibAtEntry,
                   xRet, bestInput, success, comFailed, strategies, produced, calls, prevCall>>

\* if not success or not xlsx_path.exists(): raise, else return xlsx_path
EnsureFinalCheck ==
    /\ xPc = "check"
    /\ IF ~success \/ ~sib.exists
       THEN xPc' = "raised" /\ UNCHANGED xRet
       ELSE xPc' = "returned" /\ xRet' = "sibling"
    /\ UNCHANGED <<notXls, xCaller, xSuffix, haveXlrd, HAVE_COM, srcMtime, sib, sibAtEntry,
                   bestInput, excel, wb, success, comFailed, comLog, strategies, produced,
                   calls, prevCall>>

\* find_latest_input: best = ensure_xlsx_from_xls(best); return best
FindAfterReturn ==
    /\ xPc = "returned" /\ xCaller = "find"
    /\ bestInput' = xRet
    /\ prevCall' = [outcome |-> "returned", ret |-> xRet, produced |-> produced]
    /\ xPc' = "found"
    /\ UNCHANGED <<notXls, xCaller, xSuffix, haveXlrd, HAVE_COM, srcMtime, sib, sibAtEntry,
                   xRet, excel, wb, success, comFailed, comLog, strategies, produced, calls>>

\* a caller that has no input whenever the conversion failed
FindAfterRaise_none ==
    /\ xPc = "raised" /\ xCaller = "find"
    /\ bestInput' = "none"
    /\ prevCall' = [outcome |-> "raised", ret |-> "none", produced |-> produced]
    /\ xPc' = "found"
    /\ UNCHANGED <<notXls, xCaller, xSuffix, haveXlrd, HAVE_COM, srcMtime, sib, sibAtEntry,
                   xRet, excel, wb, success, comFailed, comLog, strategies, produced, calls>>

\* find_latest_input: the exception is caught; an existing sibling is used,
\* else None is returned
FindAfterRaise ==
    /\ xPc = "raised" /\ xCaller = "find"
    /\ bestInput' = (IF sib.exists THEN "sibling" ELSE "none")
    /\ prevCall' = [outcome |-> "raised", ret |-> "none", produced |-> produced]
    /\ xPc' = "found"
    /\ UNCHANGED <<notXls, xCaller, xSuffix, haveXlrd, HAVE_COM, srcMtime, sib, sibAtEntry,
                   xRet, excel, wb, success, comFailed, comLog, strategies, produced, calls>>

\* the direct call is over: the caller has the path or the exception
DirectCallEnds ==
    /\ xPc \in {"returned", "raised"} /\ xCaller = "direct"
    /\ prevCall' = [outcome |-> xPc, ret |-> xRet, produced |-> produced]
    /\ xPc' = "ready"
    /\ UNCHANGED <<notXls, xCaller, xSuffix, haveXlrd, HAVE_COM, srcMtime, sib, sibAtEntry,
                   xRet, bestInput, excel, wb, success, comFailed, comLog, strategies, produced,
                   calls>>

\* find_latest_input has returned; it can be called again
FindEnds ==
    /\ xPc = "found"
    /\ xPc' = "ready"
    /\ UNCHANGED <<notXls, xCaller, xSuffix, haveXlrd, HAVE_COM, srcMtime, sib, sibAtEntry,
                   xRet, bestInput, excel, wb, success, comFailed, comLog, strategies, produced,
                   calls, prevCall>>

NextXls ==
    \/ CallEnsure
    \/ FindLatestInput
    \/ FindLatestInputRaises
    \/ FindCallsEnsure
    \/ EnsureSuffixCheck
    \/ EnsureCacheCheck
    \/ PrimaryConverts
    \/ PrimaryUnavailable
    \/ PrimaryRaises
    \/ FallbackUnavailable
    \/ ComStart
    \/ ComOpen
    \/ ComSaveAs
    \/ ComFinally
    \/ EnsureFinalCheck
    \/ FindAfterReturn
    \/ FindAfterRaise
    \/ DirectCallEnds
    \/ FindEnds

SpecXls == InitXls /\ [][NextXls]_vars

-----------------------------------------------------------------------------
(* Pipeline Driver: main, with refresh_converter_and_export_staff step by step *)

\* the first dataset kind that f still holds as pending (0: none)
FirstPending(f) ==
    IF \E dk \in DOMAIN f : f[dk] = "pending"
    THEN CHOOSE dk \in DOMAIN f : f[dk] = "pending" /\ \A e \in 1..(dk - 1) : f[e] # "pending"
    ELSE 0

Event(ev, dk) == [ev |-> ev, dk |-> dk]

\* a call made on the external application or on one of its workbooks
StaffCall(op, on, ok) == [op |-> op, on |-> on, ok |-> ok]

InitMain ==
    /\ IdleNotMain
    /\ mPc = "locate" /\ located = AllPending /\ convResult = AllPending /\ trace = <<>>
    /\ sPc = "idle" /\ staffCom \in BOOLEAN /\ masterExists \in BOOLEAN
    /\ staff_excel = "none" /\ staff_wb = "none" /\ new_wb = "none" /\ wbLocal = FALSE
    /\ sLog = <<>>

\* a driver that locates one input and goes on to the refresh
MainLocate_one ==
    /\ mPc = "locate"
    /\ LET dk == FirstPending(located) IN
       \E res \in {"none", "file", "raises"}, com \in BOOLEAN :
          /\ com => staffCom /\ res # "raises"
          /\ trace' = trace \o <<Event("locate", dk)>>
                            \o (IF com THEN <<Event("com_convert", dk)>> ELSE <<>>)
          /\ IF res = "raises"
             THEN mPc' = "aborted" /\ UNCHANGED located
             ELSE /\ located' = [located EXCEPT ![dk] = res]
                  /\ mPc' = "staff" 
    /\ UNCHANGED <<notMain, convResult, sPc, staffCom, masterExists, staff_excel, staff_wb,
                   new_wb, wbLocal, sLog>>

\* main: find_latest_input for the next dataset kind; it returns None or a file,
\* after driving the external application for a conversion or not, or f.stat()
\* raises while the candidates are sorted
MainLocate ==
    /\ mPc = "locate"
    /\ LET dk == FirstPending(located) IN
       \E res \in {"none", "file", "raises"}, com \in BOOLEAN :
          /\ com => staffCom /\ res # "raises"
          /\ trace' = trace \o <<Event("locate", dk)>>
                            \o (IF com THEN <<Event("com_convert", dk)>> ELSE <<>>)
          /\ IF res = "raises"
             THEN mPc' = "aborted" /\ UNCHANGED located
             ELSE /\ located' = [located EXCEPT ![dk] = res]
                  /\ mPc' = (IF dk = Len(Datasets) THEN "staff" ELSE "locate")
    /\ UNCHANGED <<notMain, convResult, sPc, staffCom, masterExists, staff_excel, staff_wb,
                   new_wb, wbLocal, sLog>>

\* main: refresh_converter_and_export_staff() is called
MainCallsStaff ==
    /\ mPc = "staff"
    /\ trace' = Append(trace, Event("staff_begin", 0))
    /\ sPc' = "entry"
    /\ mPc' = "in_staff"
    /\ UNCHANGED <<notMain, located, convResult, staffCom, masterExists, staff_excel, staff_wb,
                   new_wb, wbLocal, sLog>>

\* the refresh returns at once without HAVE_COM or without the master
StaffGuards ==
    /\ sPc = "entry"
    /\ sPc' = (IF ~staffCom \/ ~masterExists THEN "returned" ELSE "prepare")
    /\ UNCHANGED <<notMain, mPc, located, convResult, trace, staffCom, masterExists,
                   staff_excel, staff_wb, new_wb, wbLocal, sLog>>

\* the old output is unlinked (an exception is passed over); the work-copy is
\* made, outside any try
StaffPrepare ==
    /\ sPc = "prepare"
    /\ \E ok \in BOOLEAN : sPc' = (IF ok THEN "dispatch" ELSE "raised")
    /\ UNCHANGED <<notMain, mPc, located, convResult, trace, staffCom, masterExists,
                   staff_excel, staff_wb, new_wb, wbLocal, sLog>>

\* excel = DispatchEx(...), outside any try
StaffDispatch ==
    /\ sPc = "dispatch"
    /\ \E ok \in BOOLEAN :
          /\ staff_excel' = (IF ok THEN "live" ELSE "none")
          /\ sLog' = (IF ok THEN Append(sLog, StaffCall("DispatchEx", "excel", TRUE)) ELSE sLog)
          /\ sPc' = (IF ok THEN "config" ELSE "raised")
    /\ UNCHANGED <<notMain, mPc, located, convResult, trace, staffCom, masterExists, staff_wb,
                   new_wb, wbLocal>>

\* excel.Visible = False; excel.DisplayAlerts = False, outside any try
StaffConfig ==
    /\ sPc = "config"
    /\ \E ok \in BOOLEAN : sPc' = (IF ok THEN "open" ELSE "raised")
    /\ UNCHANGED <<notMain, mPc, located, convResult, trace, staffCom, masterExists,
                   staff_excel, staff_wb, new_wb, wbLocal, sLog>>

\* wb = excel.Workbooks.Open(temp_copy)
StaffOpen ==
    /\ sPc = "open"
    /\ \E ok \in BOOLEAN :
          /\ staff_wb' = (IF ok THEN "open" ELSE "none")
          /\ wbLocal' = ok
          /\ sLog' = Append(sLog, StaffCall("Open", "wb", ok))
          /\ sPc' = (IF ok THEN "refresh" ELSE "finally")
    /\ UNCHANGED <<notMain, mPc, located, convResult, trace, staffCom, masterExists,
                   staff_excel, new_wb>>

\* RefreshAll, CalculateUntilAsyncQueriesDone, the search of the staff sheet
StaffRefresh ==
    /\ sPc = "refresh"
    /\ \E res \in {"raises", "no_sheet", "sheet"} :
          sPc' = (CASE res = "raises" -> "finally"
                    [] res = "no_sheet" -> "close_master"
                    [] res = "sheet" -> "copy")
    /\ UNCHANGED <<notMain, mPc, located, convResult, trace, staffCom, masterExists,
                   staff_excel, staff_wb, new_wb, wbLocal, sLog>>

\* ws_staff.Copy() creates a workbook; new_wb = excel.ActiveWorkbook
StaffCopy ==
    /\ sPc = "copy"
    /\ \E res \in {"ok", "copy_raises", "active_raises"} :
          /\ new_wb' = (IF res = "copy_raises" THEN "none" ELSE "open")
          /\ sLog' = Append(sLog, StaffCall("Copy", "ws_staff", res # "copy_raises"))
          /\ sPc' = (IF res = "ok" THEN "saveas" ELSE "finally")
    /\ UNCHANGED <<notMain, mPc, located, convResult, trace, staffCom, masterExists,
                   staff_excel, staff_wb, wbLocal>>

\* new_wb.SaveAs(out_path_win, FileFormat=51)
StaffSaveAs ==
    /\ sPc = "saveas"
    /\ \E ok \in BOOLEAN :
          /\ sLog' = Append(sLog, StaffCall("SaveAs", "new_wb", ok))
          /\ sPc' = (IF ok THEN "close_new" ELSE "finally")
    /\ UNCHANGED <<notMain, mPc, located, convResult, trace, staffCom, masterExists,
                   staff_excel, staff_wb, new_wb, wbLocal>>

\* new_wb.Close(SaveChanges=False)
StaffCloseNew ==
    /\ sPc = "close_new"
    /\ \E ok \in BOOLEAN :
          /\ new_wb' = (IF ok THEN "closed" ELSE "open")
          /\ sLog' = Append(sLog, StaffCall("Close", "new_wb", ok))
          /\ sPc' = (IF ok THEN "close_master" ELSE "finally")
    /\ UNCHANGED <<notMain, mPc, located, convResult, trace, staffCom, masterExists,
                   staff_excel, staff_wb, wbLocal>>

\* wb.Close(SaveChanges=False); wb = None
StaffCloseMaster ==
    /\ sPc = "close_master"
    /\ \E ok \in BOOLEAN :
          /\ staff_wb' = (IF ok THEN "closed" ELSE "open")
          /\ wbLocal' = ~ok
          /\ sLog' = Append(sLog, StaffCall("Close", "wb", ok))
          /\ sPc' = "finally"
    /\ UNCHANGED <<notMain, mPc, located, convResult, trace, staffCom, masterExists,
                   staff_excel, new_wb>>

\* the except block reports a failure; the finally block closes wb if it is
\* set, quits the application, removes the work-copy; assert_exists; return
StaffFinally ==
    /\ sPc = "finally"
    /\ \E closeOk \in BOOLEAN, quitOk \in BOOLEAN :
          /\ staff_wb' = (IF wbLocal /\ closeOk THEN "closed" ELSE staff_wb)
          /\ staff_excel' = (IF quitOk THEN "quit" ELSE "live")
          /\ sLog' = sLog \o (IF wbLocal THEN <<StaffCall("Close", "wb", closeOk)>> ELSE <<>>)
                         \o <<StaffCall("Quit", "excel", quitOk)>>
    /\ sPc' = "returned"
    /\ UNCHANGED <<notMain, mPc, located, convResult, trace, staffCom, masterExists, new_wb,
                   wbLocal>>

\* main: the refresh has returned
MainAfterStaff ==
    /\ mPc = "in_staff" /\ sPc = "returned"
    /\ trace' = Append(trace, Event("staff_end", 0))
    /\ mPc' = "convert"
    /\ UNCHANGED <<notMain, located, convResult, sPc, staffCom, masterExists, staff_excel,
                   staff_wb, new_wb, wbLocal, sLog>>

\* main: an exception of the refresh leaves main, the call is in no try
MainStaffRaised ==
    /\ mPc = "in_staff" /\ sPc = "raised"
    /\ mPc' = "aborted"
    /\ UNCHANGED <<notMain, located, convResult, trace, sPc, staffCom, masterExists,
                   staff_excel, staff_wb, new_wb, wbLocal, sLog>>

\* main: the step of the next dataset kind: without an input it is skipped,
\* else its recipe is called in a try; convert_cert_results first loads the
\* LookupTable from the Staff extract
MainStartDataset ==
    /\ mPc = "convert"
    /\ LET dk == FirstPending(convResult) IN
       IF located[dk] = "file"
       THEN /\ trace' = trace \o <<Event("begin", dk)>>
                              \o (IF Datasets[dk] = "certres" THEN <<Event("lookup", dk)>> ELSE <<>>)
            /\ mPc' = "converting"
            /\ UNCHANGED convResult
       ELSE /\ convResult' = [convResult EXCEPT ![dk] = "skipped"]
            /\ trace' = Append(trace, Event("skip", dk))
            /\ mPc' = (IF dk = Len(Datasets) THEN "summary" ELSE "convert")
    /\ UNCHANGED <<notMain, located, sPc, staffCom, masterExists, staff_excel, staff_wb, new_wb,
                   wbLocal, sLog>>

\* a driver without the try: an exception of a recipe leaves main
MainFinishDataset_abort ==
    /\ mPc = "converting"
    /\ LET dk == FirstPending(convResult) IN
       \E ok \in BOOLEAN :
          /\ convResult' = [convResult EXCEPT ![dk] = IF ok THEN "ok" ELSE "failed"]
          /\ trace' = Append(trace, Event("end", dk))
          /\ mPc' = (IF ~ok THEN "aborted" ELSE IF dk = Len(Datasets) THEN "summary" ELSE "convert")
    /\ UNCHANGED <<notMain, located, sPc, staffCom, masterExists, staff_excel, staff_wb, new_wb,
                   wbLocal, sLog>>

\* main: the recipe returns, or raises and the except block reports it
MainFinishDataset ==
    /\ mPc = "converting"
    /\ LET dk == FirstPending(convResult) IN
       \E ok \in BOOLEAN :
          /\ convResult' = [convResult EXCEPT ![dk] = IF ok THEN "ok" ELSE "failed"]
          /\ trace' = Append(trace, Event("end", dk))
          /\ mPc' = (IF dk = Len(Datasets) THEN "summary" ELSE "convert")
    /\ UNCHANGED <<notMain, located, sPc, staffCom, masterExists, staff_excel, staff_wb, new_wb,
                   wbLocal, sLog>>

\* main: list_outputs() and the closing lines
MainSummary ==
    /\ mPc = "summary"
    /\ trace' = Append(trace, Event("summary", 0))
    /\ mPc' = "done"
    /\ UNCHANGED <<notMain, located, convResult, sPc, staffCom, masterExists, staff_excel,
                   staff_wb, new_wb, wbLocal, sLog>>

NextMain ==
    \/ MainLocate
    \/ MainCallsStaff
    \/ StaffGuards
    \/ StaffPrepare
    \/ StaffDispatch
    \/ StaffConfig
    \/ StaffOpen
    \/ StaffRefresh
    \/ StaffCopy
    \/ StaffSaveAs
    \/ StaffCloseNew
    \/ StaffCloseMaster
    \/ StaffFinally
    \/ MainAfterStaff
    \/ MainStaffRaised
    \/ MainStartDataset
    \/ MainFinishDataset
    \/ MainSummary

SpecMain == InitMain /\ [][NextMain]_vars

\* main is one thread that runs on as long as a statement is left
SpecMainFair == SpecMain /\ WF_vars(NextMain)

-----------------------------------------------------------------------------
(* convert_cert_results: the LookupTable, the join, the Table Writer *)

\* str(v or "").strip(), and str(v).strip() if v else ""
StrOrEmpty(v) == IF Truthy(v) THEN Strip(PyStr(v)) ELSE <<>>

\* the position of key in the dict (0: not a key)
TableFind(tbl, key) ==
    IF \E i \in 1..Len(tbl) : tbl[i].key = key
    THEN CHOOSE i \in 1..Len(tbl) : tbl[i].key = key
    ELSE 0

\* gid_to_sap[key] = val
TablePut(tbl, key, val) ==
    IF TableFind(tbl, key) # 0
    THEN [tbl EXCEPT ![TableFind(tbl, key)].val = val]
    ELSE Append(tbl, [key |-> key, val |-> val])

\* gid_to_sap.get(key, "")
TableGet(tbl, key) == IF TableFind(tbl, key) # 0 THEN tbl[TableFind(tbl, key)].val ELSE <<>>

\* the loop over the Staff rows from row on: a row with a group identifier and
\* an identifier number is stored under the normalized number
RECURSIVE LookupFrom(_, _, _, _, _)
LookupFrom(sheet, iG, iS, row, tbl) ==
    IF row > WsMaxRow(sheet) THEN tbl
    ELSE LET g == StrOrEmpty(WsCell(sheet, row, iG).value)
             s == WsCell(sheet, row, iS).value
         IN  LookupFrom(sheet, iG, iS, row + 1,
                 IF g # <<>> /\ Truthy(s) THEN TablePut(tbl, g, normalize_sapnr(s)) ELSE tbl)

\* STAP 1 of convert_cert_results for a Staff extract that loads
BuildLookup(sheet) ==
    LET mp == ws_headers_index(sheet, 1)
        iG == _idx(mp, <<<<"s", "t", "a", "f", "f", "g", "i", "d">>, <<"g", "i", "d">>, <<"g", "l", "o", "b", "a", "l", " ", "i", "d">>, <<"g", "l", "o", "b", "a", "l", "i", "d">>>>)
        iS == _idx(mp, <<<<"s", "t", "a", "f", "f", "s", "a", "p", "n", "r">>, <<"s", "a", "p", "n", "r">>, <<"s", "a", "p", " ", "n", "r">>, <<"s", "a", "p", "-", "n", "r">>, <<"s", "a", "p">>>>)
    IN  IF iG # 0 /\ iS # 0 THEN LookupFrom(sheet, iG, iS, 2, <<>>) ELSE <<>>

\* the column mapping of convert_cert_results
ResolveResColumns(sheet) ==
    LET mp == ws_headers_index(sheet, 1) IN
    [iGID |-> _idx(mp, <<<<"g", "i", "d">>, <<"s", "t", "a", "f", "f", "g", "i", "d">>, <<"g", "l", "o", "b", "a", "l", " ", "i", "d">>, <<"g", "l", "o", "b", "a", "l", "i", "d">>>>),
     iNaam |-> _idx(mp, <<<<"n", "a", "a", "m">>, <<"n", "a", "m", "e">>, <<"e", "m", "p", "l", "o", "y", "e", "e">>, <<"e", "m", "p", "l", "o", "y", "e", "e", "_", "n", "a", "m", "e">>>>),
     iOrg |-> _idx(mp, <<<<"o", "r", "g", "a", "n", "i", "s", "a", "t", "o", "r">>, <<"o", "r", "g", "a", "n", "i", "z", "e", "r">>, <<"o", "r", "g", "a", "n", "i", "z", "a", "t", "i", "o", "n">>>>),
     iCert |-> _idx(mp, <<<<"c", "e", "r", "t", "i", "f", "i", "c", "a", "a", "t">>, <<"c", "e", "r", "t", "n", "a", "m", "e">>, <<"c", "e", "r", "t", "i", "f", "i", "c", "a", "t", "e">>, <<"c", "e", "r", "t", "i", "f", "i", "c", "a", "a", "t", "n", "a", "a", "m">>>>),
     iStatus |-> _idx(mp, <<<<"s", "t", "a", "t", "u", "s">>, <<"s", "t", "a", "t", "e">>>>),
     iBeh |-> _idx(mp, <<<<"b", "e", "h", "a", "a", "l", "d">>, <<"i", "s", "s", "u", "e", "d">>, <<"d", "a", "t", "u", "m", " ", "b", "e", "h", "a", "a", "l", "d">>, <<"b", "e", "h", "a", "a", "l", "d", " ", "o", "p">>>>),
     iBeg |-> _idx(mp, <<<<"b", "e", "g", "i", "n", "_", "s", "e", "s", "s", "i", "e">>, <<"b", "e", "g", "i", "n", " ", "s", "e", "s", "s", "i", "e">>, <<"s", "t", "a", "r", "t", " ", "s", "e", "s", "s", "i", "e">>, <<"b", "e", "g", "i", "n", "d", "a", "t", "u", "m">>>>),
     iEind |-> _idx(mp, <<<<"e", "i", "n", "d", "e", "_", "s", "e", "s", "s", "i", "e">>, <<"e", "i", "n", "d", "e", " ", "s", "e", "s", "s", "i", "e">>, <<"e", "n", "d", " ", "s", "e", "s", "s", "i", "e">>, <<"e", "i", "n", "d", "d", "a", "t", "u", "m">>>>),
     iGeld |-> _idx(mp, <<<<"g", "e", "l", "d", "i", "g">>, <<"g", "e", "l", "d", "i", "g", "_", "t", "o", "t">>, <<"g", "e", "l", "d", "i", "g", " ", "t", "o", "t">>, <<"e", "x", "p", "i", "r", "y">>, <<"v", "a", "l", "i", "d", " ", "u", "n", "t", "i", "l">>, <<"g", "e", "l", "d", "i", "g", "h", "e", "i", "d", "s", "d", "a", "t", "u", "m">>>>),
     iSvc |-> _idx(mp, <<<<"s", "e", "r", "v", "i", "c", "e">>, <<"d", "i", "e", "n", "s", "t">>, <<"p", "o", "o", "l">>>>),
     iMgr |-> _idx(mp, <<<<"m", "a", "n", "a", "g", "e", "r">>, <<"v", "e", "r", "a", "n", "t", "w", "o", "o", "r", "d", "e", "l", "i", "j", "k", "e">>>>),
     iMgrGID |-> _idx(mp, <<<<"m", "g", "r", "g", "i", "d">>, <<"m", "a", "n", "a", "g", "e", "r", " ", "g", "i", "d">>, <<"m", "a", "n", "a", "g", "e", "r", "g", "i", "d">>>>),
     iProg |-> _idx(mp, <<<<"p", "r", "o", "g", "r", "a", "m">>, <<"p", "r", "o", "g", "r", "a", "m", "m", "a">>, <<"p", "r", "o", "g", "r", "a", "m", "m", "e">>>>),
     iLink |-> ResolveLinkRes(sheet)]

\* gid = str(gid).strip() if gid else ""
ResGid(sheet, cols, row) == StrOrEmpty(FieldValue(sheet, row, cols.iGID))

ResDate(sheet, row, i) == IF i # 0 THEN normalize_date(WsCell(sheet, row, i).value) ELSE <<>>

\* the fifteen values of one output row
ReadResRecord(sheet, cols, tbl, row) ==
    [staffGID     |-> ResGid(sheet, cols, row),
     staffSAPNR   |-> IF ResGid(sheet, cols, row) # <<>> THEN TableGet(tbl, ResGid(sheet, cols, row))
                      ELSE <<>>,
     Naam         |-> FieldValue(sheet, row, cols.iNaam),
     Organisator  |-> FieldValue(sheet, row, cols.iOrg),
     CertName     |-> normalize_certname(FieldValue(sheet, row, cols.iCert)),
     Status       |-> FieldValue(sheet, row, cols.iStatus),
     Behaald      |-> ResDate(sheet, row, cols.iBeh),
     Begin_sessie |-> ResDate(sheet, row, cols.iBeg),
     Einde_sessie |-> ResDate(sheet, row, cols.iEind),
     Geldig_tot   |-> ResDate(sheet, row, cols.iGeld),
     Service      |-> FieldValue(sheet, row, cols.iSvc),
     Manager      |-> FieldValue(sheet, row, cols.iMgr),
     MgrGID       |-> FieldValue(sheet, row, cols.iMgrGID),
     Program      |-> FieldValue(sheet, row, cols.iProg),
     DownloadLink |-> IF cols.iLink # 0 THEN parse_hyperlink_cell(WsCell(sheet, row, cols.iLink))
                      ELSE <<>>]

\* any([gid, naam, cert, status, beh])
ResAny(rec) ==
    \/ rec.staffGID # <<>> \/ Truthy(rec.Naam) \/ rec.CertName # <<>>
    \/ Truthy(rec.Status) \/ rec.Behaald # <<>>

\* if gid: sap = gid_to_sap.get(gid, ""); if not sap: missing_gid += 1
MissingLookup(rec) == rec.staffGID # <<>> /\ rec.staffSAPNR = <<>>

\* the header row convert_cert_results writes
ResOutHeaders ==
    <<"staffGID", "staffSAPNR", "Naam", "Organisator", "CertName", "Status", "Behaald",
      "Begin_sessie", "Einde_sessie", "Geldig_tot", "Service", "Manager", "MgrGID", "Program",
      "DownloadLink">>

\* a slip: the table is added whatever the number of rows
add_table_to_sheet_no_guard(tabs, max_row, max_col, table_name, fails) ==
    IF fails # "none" THEN tabs
    ELSE Append(tabs, [name |-> table_name,
                       ref |-> [c1 |-> 1, r1 |-> 1, c2 |-> max_col, r2 |-> max_row]])

\* add_table_to_sheet on a saved sheet of max_row rows and max_col columns:
\* the tables of the file afterwards; load_workbook or wb.save may raise, which
\* the function reports and swallows
add_table_to_sheet(tabs, max_row, max_col, table_name, fails) ==
    IF fails = "load" THEN tabs
    ELSE IF max_row < 2 \/ max_col < 1 THEN tabs
    ELSE IF fails = "save" THEN tabs
    ELSE Append(tabs, [name |-> table_name,
                       ref |-> [c1 |-> 1, r1 |-> 1, c2 |-> max_col, r2 |-> max_row]])

\* data rows of a source sheet, and of a Staff extract
MaxResRows == 2

MaxStaffRows == 2

ResHeaders ==
    {<<[value |-> StrVal(<<"G", "I", "D">>), hyperlink |-> <<>>], [value |-> StrVal(<<"N", "a", "a", "m">>), hyperlink |-> <<>>], [value |-> StrVal(<<"C", "e", "r", "t", "i", "f", "i", "c", "a", "a", "t">>), hyperlink |-> <<>>], [value |-> StrVal(<<"S", "t", "a", "t", "u", "s">>), hyperlink |-> <<>>], [value |-> StrVal(<<"S", "e", "r", "v", "i", "c", "e">>), hyperlink |-> <<>>]>>,
     <<[value |-> NoneVal, hyperlink |-> <<>>], [value |-> NoneVal, hyperlink |-> <<>>], [value |-> NoneVal, hyperlink |-> <<>>], [value |-> NoneVal, hyperlink |-> <<>>], [value |-> NoneVal, hyperlink |-> <<>>]>>}

ResDataRows ==
    {<<[value |-> StrVal(<<"G", "1">>), hyperlink |-> <<>>], [value |-> StrVal(<<"x">>), hyperlink |-> <<>>], [value |-> NoneVal, hyperlink |-> <<>>], [value |-> NoneVal, hyperlink |-> <<>>], [value |-> NoneVal, hyperlink |-> <<>>]>>,
     <<[value |-> StrVal(<<" ", "G", "2", " ">>), hyperlink |-> <<>>], [value |-> StrVal(<<"x">>), hyperlink |-> <<>>], [value |-> NoneVal, hyperlink |-> <<>>], [value |-> NoneVal, hyperlink |-> <<>>], [value |-> NoneVal, hyperlink |-> <<>>]>>,
     <<[value |-> NoneVal, hyperlink |-> <<>>], [value |-> StrVal(<<"x">>), hyperlink |-> <<>>], [value |-> StrVal(<<"E", "Q", "U", "A", "N", "S", "_", "c">>), hyperlink |-> <<>>], [value |-> NoneVal, hyperlink |-> <<>>], [value |-> NoneVal, hyperlink |-> <<>>]>>,
     <<[value |-> NoneVal, hyperlink |-> <<>>], [value |-> NoneVal, hyperlink |-> <<>>], [value |-> NoneVal, hyperlink |-> <<>>], [value |-> NoneVal, hyperlink |-> <<>>], [value |-> StrVal(<<"s">>), hyperlink |-> <<>>]>>,
     <<[value |-> StrVal(<<"G", "1">>), hyperlink |-> <<>>], [value |-> NoneVal, hyperlink |-> <<>>], [value |-> NumVal(7), hyperlink |-> <<>>], [value |-> NoneVal, hyperlink |-> <<>>], [value |-> NoneVal, hyperlink |-> <<>>]>>}

StaffHeader == <<[value |-> StrVal(<<"s", "t", "a", "f", "f", "G", "I", "D">>), hyperlink |-> <<>>], [value |-> StrVal(<<"s", "t", "a", "f", "f", "S", "A", "P", "N", "R">>), hyperlink |-> <<>>]>>

\* a Staff extract without a column for the identifier number
StaffHeaderNoSap == <<[value |-> StrVal(<<"s", "t", "a", "f", "f", "G", "I", "D">>), hyperlink |-> <<>>], [value |-> StrVal(<<"x">>), hyperlink |-> <<>>]>>

StaffDataRows ==
    {<<[value |-> StrVal(<<"G", "1">>), hyperlink |-> <<>>], [value |-> StrVal(<<"0", "0", "1", "2", "3", "4", "5">>), hyperlink |-> <<>>]>>,
     <<[value |-> StrVal(<<"G", "1">>), hyperlink |-> <<>>], [value |-> StrVal(<<"n", "/", "a">>), hyperlink |-> <<>>]>>,
     <<[value |-> StrVal(<<"G", "1">>), hyperlink |-> <<>>], [value |-> NoneVal, hyperlink |-> <<>>]>>,
     <<[value |-> NoneVal, hyperlink |-> <<>>], [value |-> StrVal(<<"1", "2", "3", "4", "5">>), hyperlink |-> <<>>]>>,
     <<[value |-> StrVal(<<" ", "G", "2", " ">>), hyperlink |-> <<>>], [value |-> NumVal(54321), hyperlink |-> <<>>]>>}

\* the sheets made of a header row and up to n data rows
SheetsOf(headers, rows, n) ==
    {<<h>> \o body : h \in headers, body \in UNION {[1..k -> rows] : k \in 0..n}}

StaffSheets ==
    SheetsOf({StaffHeader}, StaffDataRows, MaxStaffRows)
        \cup {<<StaffHeaderNoSap, row>> : row \in StaffDataRows}

InitRes ==
    /\ IdleNotRes
    /\ resPc = "start"
    /\ resDstBefore \in BOOLEAN /\ resDst = resDstBefore
    /\ staffFile \in {"missing", "unloadable", "ok"}
    /\ staffSheet \in (IF staffFile # "ok" THEN {<<>>}
                       ELSE StaffSheets)
    /\ gid_to_sap = <<>>
    /\ resWs \in SheetsOf(ResHeaders, ResDataRows, MaxResRows)
    /\ resIx = NoResColumns /\ rr = 0 /\ res_rows = <<>> /\ missing_gid = 0 /\ tables = <<>>

\* the old output is deleted; an exception of unlink is passed over
ResStart ==
    /\ resPc = "start"
    /\ \E unlinkOk \in BOOLEAN : resDst' = (resDst /\ ~unlinkOk)
    /\ resPc' = "lookup"
    /\ UNCHANGED <<notRes, resDstBefore, staffFile, staffSheet, gid_to_sap, resWs, resIx, rr,
                   res_rows, missing_gid, tables>>

\* a recipe that cannot do without the Staff extract
ResBuildLookup_fatal ==
    /\ resPc = "lookup"
    /\ gid_to_sap' = (IF staffFile = "ok" THEN BuildLookup(staffSheet) ELSE <<>>)
    /\ resPc' = (IF staffFile = "ok" THEN "load" ELSE "raised")
    /\ UNCHANGED <<notRes, resDstBefore, resDst, staffFile, staffSheet, resWs, resIx, rr,
                   res_rows, missing_gid, tables>>

\* STAP 1: the LookupTable is built from the Staff extract; a missing extract
\* and an exception of its loading are reported and leave the table empty
ResBuildLookup ==
    /\ resPc = "lookup"
    /\ gid_to_sap' = (IF staffFile = "ok" THEN BuildLookup(staffSheet) ELSE <<>>)
    /\ resPc' = "load"
    /\ UNCHANGED <<notRes, resDstBefore, resDst, staffFile, staffSheet, resWs, resIx, rr,
                   res_rows, missing_gid, tables>>

\* STAP 2: the source is loaded, which may raise, and its columns are mapped
ResLoad ==
    /\ resPc = "load"
    /\ \E ok \in BOOLEAN :
          IF ok THEN /\ resIx' = ResolveResColumns(resWs)
                     /\ rr' = 2
                     /\ resPc' = "rows"
                ELSE /\ resPc' = "raised"
                     /\ UNCHANGED <<resIx, rr>>
    /\ UNCHANGED <<notRes, resDstBefore, resDst, staffFile, staffSheet, gid_to_sap, resWs,
                   res_rows, missing_gid, tables>>

\* one turn of the writing loop: the row is joined and appended
ResRowKeep ==
    /\ resPc = "rows" /\ rr <= WsMaxRow(resWs)
    /\ ~CertNameRaises(FieldValue(resWs, rr, resIx.iCert))
    /\ LET rec == ReadResRecord(resWs, resIx, gid_to_sap, rr) IN
          /\ ResAny(rec)
          /\ res_rows' = Append(res_rows, rec)
          /\ missing_gid' = missing_gid + (IF MissingLookup(rec) THEN 1 ELSE 0)
    /\ rr' = rr + 1
    /\ UNCHANGED <<notRes, resPc, resDstBefore, resDst, staffFile, staffSheet, gid_to_sap,
                   resWs, resIx, tables>>

\* one turn of the writing loop: the row is skipped
ResRowSkip ==
    /\ resPc = "rows" /\ rr <= WsMaxRow(resWs)
    /\ ~CertNameRaises(FieldValue(resWs, rr, resIx.iCert))
    /\ ~ResAny(ReadResRecord(resWs, resIx, gid_to_sap, rr))
    /\ rr' = rr + 1
    /\ UNCHANGED <<notRes, resPc, resDstBefore, resDst, staffFile, staffSheet, gid_to_sap,
                   resWs, resIx, res_rows, missing_gid, tables>>

\* normalize_certname raises: the exception leaves convert_cert_results
ResRowRaise ==
    /\ resPc = "rows" /\ rr <= WsMaxRow(resWs)
    /\ CertNameRaises(FieldValue(resWs, rr, resIx.iCert))
    /\ resPc' = "raised"
    /\ UNCHANGED <<notRes, resDstBefore, resDst, staffFile, staffSheet, gid_to_sap, resWs,
                   resIx, rr, res_rows, missing_gid, tables>>

\* the output workbook is saved and the counters are reported
ResSave ==
    /\ resPc = "rows" /\ rr > WsMaxRow(resWs)
    /\ resDst' = TRUE
    /\ tables' = <<>>
    /\ resPc' = "style"
    /\ UNCHANGED <<notRes, resDstBefore, staffFile, staffSheet, gid_to_sap, resWs, resIx, rr,
                   res_rows, missing_gid>>

\* add_table_to_sheet(dst, 'CertificationResults', 'tblCertResults')
ResAddTable ==
    /\ resPc = "style"
    /\ \E fails \in {"none", "load", "save"} :
          tables' = add_table_to_sheet(tables, 1 + Len(res_rows), Len(ResOutHeaders),
                                       "tblCertResults", fails)
    /\ resPc' = "done"
    /\ UNCHANGED <<notRes, resDstBefore, resDst, staffFile, staffSheet, gid_to_sap, resWs,
                   resIx, rr, res_rows, missing_gid>>

NextRes ==
    \/ ResStart
    \/ ResBuildLookup
    \/ ResLoad
    \/ ResRowKeep
    \/ ResRowSkip
    \/ ResRowRaise
    \/ ResSave
    \/ ResAddTable

SpecRes == InitRes /\ [][NextRes]_vars

-----------------------------------------------------------------------------
(* convert_training: headers on row 2, data from row 3 *)

\* the column mapping of convert_training, from the header row 2
ResolveTrainColumns(sheet) ==
    LET mp == ws_headers_index(sheet, 2) IN
    [iName |-> _idx(mp, <<<<"n", "a", "a", "m">>, <<"n", "a", "m", "e">>,
                              <<"e", "m", "p", "l", "o", "y", "e", "e", "_", "n", "a", "m", "e">>,
                              <<"e", "m", "p", "l", "o", "y", "e", "e">>,
                              <<"p", "e", "r", "s", "o", "n", "e", "e", "l">>>>),
     iGID |-> _idx(mp, <<<<"c", "i", "d">>, <<"g", "i", "d">>, <<"s", "t", "a", "f", "f", "g", "i", "d">>,
                             <<"g", "l", "o", "b", "a", "l", " ", "i", "d">>,
                             <<"g", "l", "o", "b", "a", "l", "i", "d">>, <<"g", "r", "o", "u", "p", " ", "i", "d">>>>),
     iEmpNr |-> _idx(mp, <<<<"e", "m", "p", "n", "u", "m", "b", "e", "r">>,
                               <<"e", "m", "p", "l", "o", "y", "e", "e", "n", "u", "m", "b", "e", "r">>,
                               <<"e", "m", "p", "l", "o", "y", "e", "e", " ", "n", "u", "m", "b", "e", "r">>,
                               <<"s", "a", "p", " ", "n", "r">>, <<"s", "t", "a", "f", "f", "s", "a", "p", "n", "r">>,
                               <<"s", "a", "p", "n", "r">>, <<"s", "a", "p", "-", "n", "r">>, <<"s", "a", "p">>,
                               <<"e", "m", "p", "l", "o", "y", "e", "e", " ", "n", "°">>,
                               <<"e", "m", "p", "l", "o", "y", "e", "e", " ", "n", "r">>>>),
     iService |-> _idx(mp, <<<<"s", "e", "r", "v", "i", "c", "e">>, <<"p", "o", "o", "l">>,
                                 <<"d", "i", "e", "n", "s", "t">>>>),
     iCertName |-> _idx(mp, <<<<"o", "p", "l", "e", "i", "d", "i", "n", "g">>,
                                  <<"c", "e", "r", "t", "n", "a", "m", "e">>,
                                  <<"c", "e", "r", "t", "i", "f", "i", "c", "a", "a", "t">>,
                                  <<"c", "e", "r", "t", "i", "f", "i", "c", "a", "t", "e">>,
                                  <<"t", "r", "a", "i", "n", "i", "n", "g">>,
                                  <<"o", "p", "l", "e", "i", "d", "i", "n", "g", "s", "t", "i", "t", "e", "l">>,
                                  <<"c", "o", "u", "r", "s", "e", " ", "n", "a", "m", "e">>>>),
     iCategorie |-> _idx(mp, <<<<"c", "a", "t", "e", "g", "o", "r", "i", "e">>,
                                   <<"c", "a", "t", "e", "g", "o", "r", "y">>, <<"t", "y", "p", "e">>>>),
     iStatut |-> _idx(mp, <<<<"s", "t", "a", "t", "u", "u", "t">>, <<"s", "t", "a", "t", "u", "t">>,
                                <<"s", "t", "a", "t", "u", "s">>, <<"s", "t", "a", "t", "e">>,
                                <<"t", "o", "e", "s", "t", "a", "n", "d">>,
                                <<"i", "n", "s", "c", "h", "r", "i", "j", "v", "i", "n", "g", "s", "s", "t", "a", "t", "u", "s">>,
                                <<"r", "e", "g", "i", "s", "t", "r", "a", "t", "i", "o", "n", " ", "s", "t", "a", "t", "u", "s">>,
                                <<"r", "e", "q", "u", "e", "s", "t", "s", "t", "a", "t", "u", "s">>>>),
     iDatum |-> _idx(mp, <<<<"d", "a", "t", "u", "m">>, <<"d", "a", "t", "e">>,
                               <<"s", "c", "h", "e", "d", "u", "l", "e", "d", " ", "d", "a", "t", "e">>,
                               <<"s", "c", "h", "e", "d", "u", "l", "e", "d", "d", "a", "t", "e">>,
                               <<"s", "t", "a", "r", "t", "d", "a", "t", "e">>, <<"s", "t", "a", "r", "t">>,
                               <<"d", "a", "t", "u", "m", " ", "s", "t", "a", "r", "t">>,
                               <<"s", "t", "a", "r", "t", " ", "d", "a", "t", "u", "m">>,
                               <<"s", "t", "a", "r", "t", " ", "t", "i", "m", "e">>,
                               <<"s", "t", "a", "r", "t", "t", "i", "j", "d">>>>),
     iDuration |-> _idx(mp, <<<<"d", "u", "u", "r">>, <<"d", "u", "r", "a", "t", "i", "o", "n">>,
                                  <<"d", "u", "r", "é", "e">>, <<"l", "e", "n", "g", "t", "e">>>>),
     iLang |-> _idx(mp, <<<<"l", "a", "n", "g">>, <<"l", "a", "n", "g", "u", "a", "g", "e">>, <<"t", "a", "a", "l">>,
                              <<"l", "a", "n", "g", "u", "e">>>>),
     iLocation |-> _idx(mp, <<<<"l", "o", "c", "a", "t", "i", "o", "n">>, <<"l", "o", "c", "a", "t", "i", "e">>,
                                  <<"l", "i", "e", "u">>, <<"p", "l", "a", "a", "t", "s">>>>),
     iSite |-> _idx(mp, <<<<"s", "i", "t", "e">>, <<"v", "e", "s", "t", "i", "g", "i", "n", "g">>,
                              <<"s", "t", "a", "n", "d", "p", "l", "a", "a", "t", "s">>>>)]

\* missing: the names of the critical columns that were not found
MissingCritical(cols) ==
    (IF cols.iName = 0 THEN <<"Naam/Name">> ELSE <<>>)
        \o (IF cols.iCertName = 0 THEN <<"Opleiding/CertName">> ELSE <<>>)

\* the fields of one turn of the loop, in the order they are read
TrainFields ==
    <<"iName", "iGID", "iEmpNr", "iService", "iCertName", "iCategorie", "iStatut",
      "iDatum", "iDuration", "iLang", "iLocation", "iSite">>

\* a slip: the cell is read whether or not the column was found
TrainColumnsRead_unguarded(cols, n) == {cols[TrainFields[k]] : k \in 1..n}

\* the column indices passed to ws.cell for the first n fields of one turn:
\* 'ws.cell(r, i).value if i else ""' reads no cell for an index of None
TrainColumnsRead(cols, n) == {cols[TrainFields[k]] : k \in 1..n} \ {0}

\* the twelve values of one output row
ReadTrainRecord(sheet, cols, row) ==
    [Employee_Name |-> FieldValue(sheet, row, cols.iName),
     staffGID      |-> FieldValue(sheet, row, cols.iGID),
     staffSAPNR    |-> IF cols.iEmpNr # 0 THEN normalize_sapnr(WsCell(sheet, row, cols.iEmpNr).value)
                       ELSE <<>>,
     Service       |-> FieldValue(sheet, row, cols.iService),
     CertName      |-> normalize_certname(FieldValue(sheet, row, cols.iCertName)),
     Categorie     |-> FieldValue(sheet, row, cols.iCategorie),
     RequestStatus |-> FieldValue(sheet, row, cols.iStatut),
     ScheduledDate |-> IF cols.iDatum # 0 THEN normalize_date(WsCell(sheet, row, cols.iDatum).value)
                       ELSE <<>>,
     Duration      |-> FieldValue(sheet, row, cols.iDuration),
     Language      |-> FieldValue(sheet, row, cols.iLang),
     Location      |-> FieldValue(sheet, row, cols.iLocation),
     Site          |-> FieldValue(sheet, row, cols.iSite)]

\* any([name, gid, sap, service, certname, categorie, status, datum, duration,
\* lang, location, site])
TrainAny(rec) ==
    \/ Truthy(rec.Employee_Name) \/ Truthy(rec.staffGID) \/ rec.staffSAPNR # <<>>
    \/ Truthy(rec.Service) \/ rec.CertName # <<>> \/ Truthy(rec.Categorie)
    \/ Truthy(rec.RequestStatus) \/ rec.ScheduledDate # <<>> \/ Truthy(rec.Duration)
    \/ Truthy(rec.Language) \/ Truthy(rec.Location) \/ Truthy(rec.Site)

\* data rows of a training source
MaxTrainRows == 2

TrainReserved == <<[value |-> NoneVal, hyperlink |-> <<>>], [value |-> NoneVal, hyperlink |-> <<>>], [value |-> NoneVal, hyperlink |-> <<>>], [value |-> NoneVal, hyperlink |-> <<>>]>>

TrainHeaders ==
    {<<[value |-> StrVal(<<"N", "a", "a", "m">>), hyperlink |-> <<>>], [value |-> StrVal(<<"C", "I", "D">>), hyperlink |-> <<>>], [value |-> StrVal(<<"O", "p", "l", "e", "i", "d", "i", "n", "g">>), hyperlink |-> <<>>], [value |-> StrVal(<<"E", "m", "p", "N", "u", "m", "b", "e", "r">>), hyperlink |-> <<>>]>>,
     <<[value |-> NoneVal, hyperlink |-> <<>>], [value |-> NoneVal, hyperlink |-> <<>>], [value |-> NoneVal, hyperlink |-> <<>>], [value |-> NoneVal, hyperlink |-> <<>>]>>,
     <<[value |-> NoneVal, hyperlink |-> <<>>], [value |-> StrVal(<<"C", "I", "D">>), hyperlink |-> <<>>], [value |-> NoneVal, hyperlink |-> <<>>], [value |-> StrVal(<<"E", "m", "p", "N", "u", "m", "b", "e", "r">>), hyperlink |-> <<>>]>>,
     <<[value |-> StrVal(<<"x">>), hyperlink |-> <<>>], [value |-> StrVal(<<"C", "I", "D">>), hyperlink |-> <<>>], [value |-> StrVal(<<"O", "p", "l", "e", "i", "d", "i", "n", "g">>), hyperlink |-> <<>>], [value |-> StrVal(<<"E", "m", "p", "N", "u", "m", "b", "e", "r">>), hyperlink |-> <<>>]>>,
     <<[value |-> StrVal(<<"N", "a", "a", "m">>), hyperlink |-> <<>>], [value |-> StrVal(<<"C", "I", "D">>), hyperlink |-> <<>>], [value |-> NumVal(7), hyperlink |-> <<>>], [value |-> StrVal(<<"E", "m", "p", "N", "u", "m", "b", "e", "r">>), hyperlink |-> <<>>]>>}

TrainDataRows ==
    {<<[value |-> StrVal(<<"x">>), hyperlink |-> <<>>], [value |-> StrVal(<<"G", "1">>), hyperlink |-> <<>>], [value |-> StrVal(<<"E", "Q", "U", "A", "N", "S", "_", "c">>), hyperlink |-> <<>>], [value |-> StrVal(<<"0", "0", "1", "2", "3", "4", "5">>), hyperlink |-> <<>>]>>,
     <<[value |-> NoneVal, hyperlink |-> <<>>], [value |-> NoneVal, hyperlink |-> <<>>], [value |-> NoneVal, hyperlink |-> <<>>], [value |-> NoneVal, hyperlink |-> <<>>]>>,
     <<[value |-> NoneVal, hyperlink |-> <<>>], [value |-> NoneVal, hyperlink |-> <<>>], [value |-> NumVal(7), hyperlink |-> <<>>], [value |-> NoneVal, hyperlink |-> <<>>]>>,
     <<[value |-> StrVal(<<"x">>), hyperlink |-> <<>>], [value |-> NoneVal, hyperlink |-> <<>>], [value |-> NoneVal, hyperlink |-> <<>>], [value |-> NoneVal, hyperlink |-> <<>>]>>,
     <<[value |-> NoneVal, hyperlink |-> <<>>], [value |-> NoneVal, hyperlink |-> <<>>], [value |-> NoneVal, hyperlink |-> <<>>], [value |-> StrVal(<<"1", "2">>), hyperlink |-> <<>>]>>}

TrainSheets ==
    {<<TrainReserved, h>> \o body :
        h \in TrainHeaders, body \in UNION {[1..k -> TrainDataRows] : k \in 0..MaxTrainRows}}

InitTrain ==
    /\ IdleNotTrain
    /\ trPc = "start"
    /\ trDst \in BOOLEAN
    /\ trWs \in TrainSheets
    /\ trIx = NoTrainColumns /\ tRow = 0 /\ tr_rows = <<>> /\ missing = <<>> /\ trReads = {}

\* the old output is deleted (an exception of unlink is passed over), the source
\* is loaded, which may raise, the columns are mapped and the missing critical
\* columns reported
TrainStart ==
    /\ trPc = "start"
    /\ \E unlinkOk \in BOOLEAN : trDst' = (trDst /\ ~unlinkOk)
    /\ \E ok \in BOOLEAN :
          IF ok THEN /\ trIx' = ResolveTrainColumns(trWs)
                     /\ missing' = MissingCritical(ResolveTrainColumns(trWs))
                     /\ tRow' = 3
                     /\ trPc' = "rows"
                ELSE /\ trPc' = "raised"
                     /\ UNCHANGED <<trIx, missing, tRow>>
    /\ UNCHANGED <<notTrain, trWs, tr_rows, trReads>>

\* one turn of the writing loop: the row is appended
TrainRowKeep ==
    /\ trPc = "rows" /\ tRow <= WsMaxRow(trWs)
    /\ ~CertNameRaises(FieldValue(trWs, tRow, trIx.iCertName))
    /\ TrainAny(ReadTrainRecord(trWs, trIx, tRow))
    /\ tr_rows' = Append(tr_rows, ReadTrainRecord(trWs, trIx, tRow))
    /\ trReads' = trReads \cup TrainColumnsRead(trIx, Len(TrainFields))
    /\ tRow' = tRow + 1
    /\ UNCHANGED <<notTrain, trPc, trDst, trWs, trIx, missing>>

\* one turn of the writing loop: the row is skipped
TrainRowSkip ==
    /\ trPc = "rows" /\ tRow <= WsMaxRow(trWs)
    /\ ~CertNameRaises(FieldValue(trWs, tRow, trIx.iCertName))
    /\ ~TrainAny(ReadTrainRecord(trWs, trIx, tRow))
    /\ trReads' = trReads \cup TrainColumnsRead(trIx, Len(TrainFields))
    /\ tRow' = tRow + 1
    /\ UNCHANGED <<notTrain, trPc, trDst, trWs, trIx, tr_rows, missing>>

\* normalize_certname raises after the first five fields were read
TrainRowRaise ==
    /\ trPc = "rows" /\ tRow <= WsMaxRow(trWs)
    /\ CertNameRaises(FieldValue(trWs, tRow, trIx.iCertName))
    /\ trReads' = trReads \cup TrainColumnsRead(trIx, 5)
    /\ trPc' = "raised"
    /\ UNCHANGED <<notTrain, trDst, trWs, trIx, tRow, tr_rows, missing>>

\* the output workbook is saved, reported and styled
TrainSave ==
    /\ trPc = "rows" /\ tRow > WsMaxRow(trWs)
    /\ trDst' = TRUE
    /\ trPc' = "done"
    /\ UNCHANGED <<notTrain, trWs, trIx, tRow, tr_rows, missing, trReads>>

NextTrain ==
    \/ TrainStart
    \/ TrainRowKeep
    \/ TrainRowSkip
    \/ TrainRowRaise
    \/ TrainSave

SpecTrain == InitTrain /\ [][NextTrain]_vars

-----------------------------------------------------------------------------
(* find_latest_input over a directory of several files *)

\* the newest modification time of a file that is in INBOX before the call
MaxMtime == 3

\* the modification time of a file written during the call
WrittenNow == MaxMtime + 1

\* the files INBOX can hold: a legacy file and its sibling, another canonical
\* file, and a file whose name matches no pattern
FindFiles ==
    {[stem |-> "a", ext |-> ".xls"], [stem |-> "a", ext |-> ".xlsx"],
     [stem |-> "b", ext |-> ".xlsx"], [stem |-> "n", ext |-> ".xlsx"]}

\* None
NoInput == [stem |-> "", ext |-> ""]

\* INBOX.glob(pat + ext) for the patterns of the kind
MatchesPattern(f) == f.stem \in {"a", "b"}

\* best.with_suffix(".xlsx")
with_suffix_xlsx(f) == [f EXCEPT !.ext = ".xlsx"]

\* the files the loops over the patterns and the two extensions find
Globbed(box) == {f \in FindFiles : box[f] # 0 /\ MatchesPattern(f)}

\* the orders in which the loops can append them: ".xls" before ".xlsx", the
\* order within one glob is the directory's
GlobOrders(box) ==
    {g \in [1..Cardinality(Globbed(box)) -> Globbed(box)] :
        /\ \A i, j \in DOMAIN g : i # j => g[i] # g[j]
        /\ \A i, j \in DOMAIN g : i < j => ~(g[i].ext = ".xlsx" /\ g[j].ext = ".xls")}

\* a slip: the sort without reverse=True
InsertByMtime_oldest_first(box, sorted, f) ==
    LET k == Cardinality({i \in 1..Len(sorted) : box[sorted[i]] <= box[f]})
    IN  SubSeq(sorted, 1, k) \o <<f>> \o SubSeq(sorted, k + 1, Len(sorted))

\* one step of the stable sort, newest first: f goes behind the files that are
\* not older than it
InsertByMtime(box, sorted, f) ==
    LET k == Cardinality({i \in 1..Len(sorted) : box[sorted[i]] >= box[f]})
    IN  SubSeq(sorted, 1, k) \o <<f>> \o SubSeq(sorted, k + 1, Len(sorted))

\* cands.sort(key=lambda f: f.stat().st_mtime, reverse=True)
RECURSIVE SortNewestFirst(_, _, _, _)
SortNewestFirst(box, g, i, sorted) ==
    IF i > Len(g) THEN sorted
    ELSE SortNewestFirst(box, g, i + 1, InsertByMtime(box, sorted, g[i]))

\* the cache check of ensure_xlsx_from_xls finds the sibling up to date
SiblingFresh(box, f) ==
    box[with_suffix_xlsx(f)] # 0 /\ box[with_suffix_xlsx(f)] >= box[f]

\* what a failed conversion leaves at the sibling's path: nothing (no sibling,
\* or the old one deleted), the old sibling (it was not older, or it could not
\* be checked or deleted), or a file a strategy had begun to write
AfterFailure(box, f) ==
    LET old == box[with_suffix_xlsx(f)] IN
    {WrittenNow}
        \cup (IF old # 0 THEN {old} ELSE {})
        \cup (IF old = 0 \/ old < box[f] THEN {0} ELSE {})

InitFind ==
    /\ IdleNotFind
    /\ fPc = "start"
    /\ INBOX \in [FindFiles -> 0..MaxMtime]
    /\ inbox0 = INBOX
    /\ cands = <<>> /\ fBest = NoInput /\ fConv = "none"

\* no file matches: None is returned
FindNoCandidates ==
    /\ fPc = "start" /\ Globbed(INBOX) = {}
    /\ fBest' = NoInput
    /\ fPc' = "found"
    /\ UNCHANGED <<notFind, inbox0, INBOX, cands, fConv>>

\* the candidates are collected and sorted, newest first
FindSort ==
    /\ fPc = "start" /\ Globbed(INBOX) # {}
    /\ \E g \in GlobOrders(INBOX) : cands' = SortNewestFirst(INBOX, g, 1, <<>>)
    /\ fPc' = "sorted"
    /\ UNCHANGED <<notFind, inbox0, INBOX, fBest, fConv>>

\* f.stat() raises in the sort key: the exception leaves find_latest_input
FindSortRaises ==
    /\ fPc = "start" /\ Globbed(INBOX) # {}
    /\ fPc' = "raised"
    /\ UNCHANGED <<notFind, inbox0, INBOX, cands, fBest, fConv>>

\* the newest candidate is no legacy file and is returned as it is
FindReturnsBest ==
    /\ fPc = "sorted" /\ cands[1].ext # ".xls"
    /\ fBest' = cands[1]
    /\ fPc' = "found"
    /\ UNCHANGED <<notFind, inbox0, INBOX, cands, fConv>>

\* ensure_xlsx_from_xls returns the sibling that is not older than the source
FindCacheHit ==
    /\ fPc = "sorted" /\ cands[1].ext = ".xls"
    /\ SiblingFresh(INBOX, cands[1])
    /\ fBest' = with_suffix_xlsx(cands[1])
    /\ fConv' = "cache"
    /\ fPc' = "found"
    /\ UNCHANGED <<notFind, inbox0, INBOX, cands>>

\* ensure_xlsx_from_xls converts the source (its sibling is missing or older, or
\* the check of the sibling raised): the sibling is written now
FindConverts ==
    /\ fPc = "sorted" /\ cands[1].ext = ".xls"
    /\ INBOX' = [INBOX EXCEPT ![with_suffix_xlsx(cands[1])] = WrittenNow]
    /\ fBest' = with_suffix_xlsx(cands[1])
    /\ fConv' = "converted"
    /\ fPc' = "found"
    /\ UNCHANGED <<notFind, inbox0, cands>>

\* ensure_xlsx_from_xls raises: a sibling that exists then is used, else None is
\* returned
FindConversionFails ==
    /\ fPc = "sorted" /\ cands[1].ext = ".xls"
    /\ \E left \in AfterFailure(INBOX, cands[1]) :
          /\ INBOX' = [INBOX EXCEPT ![with_suffix_xlsx(cands[1])] = left]
          /\ fBest' = (IF left # 0 THEN with_suffix_xlsx(cands[1]) ELSE NoInput)
    /\ fConv' = "failed"
    /\ fPc' = "found"
    /\ UNCHANGED <<notFind, inbox0, cands>>

NextFind ==
    \/ FindNoCandidates
    \/ FindSort
    \/ FindSortRaises
    \/ FindReturnsBest
    \/ FindCacheHit
    \/ FindConverts
    \/ FindConversionFails

SpecFind == InitFind /\ [][NextFind]_vars

-----------------------------------------------------------------------------
(* run of the downloader scripts: one try and two retries *)

\* for attempt in range(1, 4)
MaxAttempts == 3

Downloaders == {"certificates", "formations", "certified_report", "competences", "training_catalog"}

\* the scripts that take a screenshot of the page after a download
SuccessShot(script) == script \in {"certificates", "formations", "certified_report"}

\* one call of run, made in the turn n of the loop (0: outside the loop)
Call(ev, n) == [ev |-> ev, n |-> n]

InitDl ==
    /\ IdleNotDl
    /\ dPc = "start"
    /\ dScript \in Downloaders
    /\ headless \in BOOLEAN
    /\ attempt = 0 /\ last_err = 0 /\ last_shot = FALSE /\ dLog = <<>>
    /\ ctxOpen = FALSE /\ browserOpen = FALSE /\ exitCode = -1

\* the browser is launched, the context and the page are made and the login is
\* checked; an exception there leaves run, and the with statement stops Playwright
DlLogin ==
    /\ dPc = "start"
    /\ \E ok \in BOOLEAN :
          IF ok THEN /\ ctxOpen' = TRUE /\ browserOpen' = TRUE
                     /\ attempt' = 1
                     /\ dPc' = "loop"
                     /\ UNCHANGED exitCode
                ELSE /\ dPc' = "crashed"
                     /\ exitCode' = 1
                     /\ UNCHANGED <<ctxOpen, browserOpen, attempt>>
    /\ UNCHANGED <<notDl, dScript, headless, last_err, last_shot, dLog>>

\* one turn of the loop begins: attempt_once downloads and saves the file, or
\* raises; on a closed context or browser it can only raise
DlAttempt ==
    /\ dPc = "loop" /\ attempt <= MaxAttempts
    /\ \E ok \in (IF ctxOpen /\ browserOpen THEN BOOLEAN ELSE {FALSE}) :
          IF ok THEN /\ dLog' = Append(dLog, Call("attempt_once", attempt))
                     /\ dPc' = "saved"
                     /\ UNCHANGED last_err
                ELSE /\ dLog' = dLog \o <<Call("attempt_once", attempt), Call("raise", attempt)>>
                     /\ last_err' = attempt
                     /\ dPc' = "handler"
    /\ UNCHANGED <<notDl, dScript, headless, attempt, last_shot, ctxOpen, browserOpen, exitCode>>

\* after the download: the optional screenshot, whose exception is passed over,
\* and ctx.storage_state, which may raise
DlSaveState ==
    /\ dPc = "saved"
    /\ \E ok \in BOOLEAN :
          LET shot == IF ~headless /\ SuccessShot(dScript) THEN <<Call("screenshot", attempt)>>
                      ELSE <<>>
          IN  IF ok THEN /\ dLog' = dLog \o shot \o <<Call("storage_state", attempt)>>
                         /\ dPc' = "closing"
                         /\ UNCHANGED last_err
                    ELSE /\ dLog' = dLog \o shot \o <<Call("raise", attempt)>>
                         /\ last_err' = attempt
                         /\ dPc' = "handler"
    /\ UNCHANGED <<notDl, dScript, headless, attempt, last_shot, ctxOpen, browserOpen, exitCode>>

\* ctx.close(); browser.close(); return - or one of the two raises
DlCloseAndReturn ==
    /\ dPc = "closing"
    /\ \E raised \in {"none", "ctx.close", "browser.close"} :
          /\ ctxOpen' = (raised = "ctx.close" /\ ctxOpen)
          /\ browserOpen' = (raised # "none" /\ browserOpen)
          /\ IF raised = "none"
             THEN /\ dLog' = dLog \o <<Call("ctx.close", attempt), Call("browser.close", attempt)>>
                  /\ dPc' = "returned"
                  /\ exitCode' = 0
                  /\ UNCHANGED last_err
             ELSE /\ dLog' = dLog \o (IF raised = "browser.close" THEN <<Call("ctx.close", attempt)>>
                                      ELSE <<>>) \o <<Call("raise", attempt)>>
                  /\ last_err' = attempt
                  /\ dPc' = "handler"
                  /\ UNCHANGED exitCode
    /\ UNCHANGED <<notDl, dScript, headless, attempt, last_shot>>

\* a slip: the loop is left after the first failure
DlHandler_mail_every_failure ==
    /\ dPc = "handler"
    /\ \E shot \in BOOLEAN : last_shot' = shot
    /\ attempt' = attempt + 1
    /\ dPc' = "notify"
    /\ UNCHANGED <<notDl, dScript, headless, last_err, dLog, ctxOpen, browserOpen, exitCode>>

\* the except block: the popups are closed and the page is reloaded, exceptions
\* passed over; after the third attempt a screenshot is tried; then the next turn,
\* or the end of the loop
DlHandler ==
    /\ dPc = "handler"
    /\ IF attempt = MaxAttempts THEN \E shot \in BOOLEAN : last_shot' = shot
                                ELSE UNCHANGED last_shot
    /\ attempt' = attempt + 1
    /\ dPc' = (IF attempt = MaxAttempts THEN "notify" ELSE "loop")
    /\ UNCHANGED <<notDl, dScript, headless, last_err, dLog, ctxOpen, browserOpen, exitCode>>

\* all attempts failed: notify_failure(TASK_NAME, last_err, last_shot, log)
DlNotify ==
    /\ dPc = "notify"
    /\ dLog' = Append(dLog, Call("notify_failure", last_err))
    /\ dPc' = "final"
    /\ UNCHANGED <<notDl, dScript, headless, attempt, last_err, last_shot, ctxOpen, browserOpen,
                   exitCode>>

\* ctx.close(); browser.close(); raise SystemExit(1) - an exception of the two
\* closes leaves run instead, and the with statement stops Playwright
DlFinalClose ==
    /\ dPc = "final"
    /\ \E ok \in BOOLEAN : dPc' = (IF ok THEN "exited" ELSE "crashed")
    /\ ctxOpen' = FALSE /\ browserOpen' = FALSE
    /\ exitCode' = 1
    /\ UNCHANGED <<notDl, dScript, headless, attempt, last_err, last_shot, dLog>>

NextDl ==
    \/ DlLogin
    \/ DlAttempt
    \/ DlSaveState
    \/ DlCloseAndReturn
    \/ DlHandler
    \/ DlNotify
    \/ DlFinalClose

SpecDl == InitDl /\ [][NextDl]_vars

\* run is a sequential program whose waits all have a timeout: a step that can
\* be taken is taken
SpecDlFair == SpecDl /\ WF_vars(NextDl)

-----------------------------------------------------------------------------
(* run_scripts_silent: the login check, the four downloaders, the converter *)

SCRIPT_NAMES ==
    <<"xaurum_dispatcher_certificates.py", "xaurum_dispatcher_formations.py",
      "xaurum_dispatcher_certified_report.py", "xaurum_download_competences.py">>

CONVERTER_SCRIPT == "xaurum_converter.py"

\* how a script run by runpy.run_path can end: it returns, it raises
\* SystemExit with no code, a number or a text, or it raises another exception
ScriptEndings == {"return", "exit_none", "exit_0", "exit_1", "exit_2", "exit_text", "exception"}

\* the code the try statement around run_path records
RcOf(ending) ==
    CASE ending = "return" -> 0
      [] ending = "exit_none" -> 0
      [] ending = "exit_0" -> 0
      [] ending = "exit_1" -> 1
      [] ending = "exit_2" -> 2
      [] ending = "exit_text" -> 1
      [] ending = "exception" -> 1

\* okc: the downloaders recorded with code 0
OkCount(rcs) == Cardinality({k \in 1..Len(rcs) : rcs[k] = 0})

\* return 0 if total_ok == total_scripts else 1
SilentResult(rcs, conv) ==
    IF OkCount(rcs) + (IF conv = 0 THEN 1 ELSE 0) = Len(SCRIPT_NAMES) + 1 THEN 0 ELSE 1

InitSilent ==
    /\ IdleNotSilent
    /\ lPc = "start"
    /\ authResult \in {"true", "false", "raises"}
    /\ converterExists \in BOOLEAN
    /\ scriptIx = 0 /\ started = <<>> /\ results = <<>> /\ converter_rc = 1
    /\ sysIo = "own" /\ silentRet = -1

\* the login check: smart_bootstrap returns false or raises, and 1 is returned;
\* or the loop over the scripts begins
SilentAuth ==
    /\ lPc = "start"
    /\ IF authResult = "true"
       THEN /\ scriptIx' = 1
            /\ lPc' = "scripts"
            /\ UNCHANGED silentRet
       ELSE /\ silentRet' = 1
            /\ lPc' = "done"
            /\ UNCHANGED scriptIx
    /\ UNCHANGED <<notSilent, authResult, converterExists, started, results, converter_rc,
                   sysIo>>

\* sys.argv, stdout and stderr are saved and set for the script, run_path is called
SilentStartScript ==
    /\ lPc = "scripts" /\ scriptIx <= Len(SCRIPT_NAMES)
    /\ sysIo' = SCRIPT_NAMES[scriptIx]
    /\ started' = Append(started, SCRIPT_NAMES[scriptIx])
    /\ lPc' = "running"
    /\ UNCHANGED <<notSilent, authResult, converterExists, scriptIx, results, converter_rc,
                   silentRet>>

\* a slip: no finally block
SilentScriptEnds_keeps_redirect ==
    /\ lPc = "running"
    /\ \E ending \in ScriptEndings : results' = Append(results, RcOf(ending))
    /\ scriptIx' = scriptIx + 1
    /\ lPc' = (IF scriptIx = Len(SCRIPT_NAMES) THEN "converter" ELSE "scripts")
    /\ UNCHANGED <<notSilent, authResult, converterExists, started, converter_rc, sysIo,
                   silentRet>>

\* the script ends: its code is recorded, the finally block restores sys.argv,
\* stdout and stderr, the loop goes on
SilentScriptEnds ==
    /\ lPc = "running"
    /\ \E ending \in ScriptEndings : results' = Append(results, RcOf(ending))
    /\ sysIo' = "own"
    /\ scriptIx' = scriptIx + 1
    /\ lPc' = (IF scriptIx = Len(SCRIPT_NAMES) THEN "converter" ELSE "scripts")
    /\ UNCHANGED <<notSilent, authResult, converterExists, started, converter_rc, silentRet>>

\* the converter script is not there: a warning, converter_rc stays 1
SilentConverterMissing ==
    /\ lPc = "converter" /\ ~converterExists
    /\ lPc' = "summary"
    /\ UNCHANGED <<notSilent, authResult, converterExists, scriptIx, started, results,
                   converter_rc, sysIo, silentRet>>

\* the converter is started the same way
SilentStartConverter ==
    /\ lPc = "converter" /\ converterExists
    /\ sysIo' = CONVERTER_SCRIPT
    /\ started' = Append(started, CONVERTER_SCRIPT)
    /\ lPc' = "conv_running"
    /\ UNCHANGED <<notSilent, authResult, converterExists, scriptIx, results, converter_rc,
                   silentRet>>

\* the converter ends: its code is recorded, sys.argv, stdout and stderr restored
SilentConverterEnds ==
    /\ lPc = "conv_running"
    /\ \E ending \in ScriptEndings : converter_rc' = RcOf(ending)
    /\ sysIo' = "own"
    /\ lPc' = "summary"
    /\ UNCHANGED <<notSilent, authResult, converterExists, scriptIx, started, results,
                   silentRet>>

\* the summary is written and the result returned
SilentSummary ==
    /\ lPc = "summary"
    /\ silentRet' = SilentResult(results, converter_rc)
    /\ lPc' = "done"
    /\ UNCHANGED <<notSilent, authResult, converterExists, scriptIx, started, results,
                   converter_rc, sysIo>>

NextSilent ==
    \/ SilentAuth
    \/ SilentStartScript
    \/ SilentScriptEnds
    \/ SilentConverterMissing
    \/ SilentStartConverter
    \/ SilentConverterEnds
    \/ SilentSummary

SpecSilent == InitSilent /\ [][NextSilent]_vars

-----------------------------------------------------------------------------
(* Properties of the identifier normalizer (checked under SpecSap) *)

\* the digit-only form of a text
DigitsOf(t) == SelectSeq(t, IsDigit)

\* the text of a raw value, nothing for an absent one
RawText(v) == IF v.kind = "none" THEN <<>> ELSE PyStr(v)

AllDigits(t) == \A i \in 1..Len(t) : IsDigit(t[i])

IsSuffix(x, t) == Len(x) <= Len(t) /\ x = SubSeq(t, Len(t) - Len(x) + 1, Len(t))

\* C7 as stated: the result of normalize_sapnr is empty or exactly 5 digits, the
\* rightmost 5 digits of the digit-only form of the raw value.
C7_EmptyOrExactlyFive ==
    sapPc = "out" =>
        \/ sapOut = <<>>
        \/ /\ Len(sapOut) = 5
           /\ AllDigits(sapOut)
           /\ IsSuffix(sapOut, DigitsOf(RawText(sapIn)))

\* C7 as amended: the result of normalize_sapnr consists of digits only and has at
\* most 5 of them; it is the rightmost 5 digits of the digit-only form of the raw
\* value when that form has at least 5 digits, and the whole digit-only form
\* (1 to 4 digits, or empty) otherwise.
C7_AtMostFive ==
    sapPc = "out" =>
        LET ds == DigitsOf(RawText(sapIn))
        IN  /\ AllDigits(sapOut)
            /\ Len(sapOut) <= 5
            /\ IsSuffix(sapOut, ds)
            /\ Len(sapOut) = 5 \/ sapOut = ds

\* a raw value with 1 to 4 digits has been normalized to those digits
C7_Witness ==
    /\ sapPc = "out"
    /\ Len(DigitsOf(RawText(sapIn))) \in 1..4
    /\ sapOut = DigitsOf(RawText(sapIn))

S_00123 == <<"0", "0", "1", "2", "3">>

\* C8: normalize_sapnr removes every non-digit of the trimmed text and returns the
\* last 5 digits if at least 5 remain, else all remaining digits; an absent or
\* blank value gives ""; "SAP-00123" gives "00123", "12" gives "12", "" gives "".
C8_LastFiveOrAll ==
    sapPc = "out" =>
        LET ds == DigitsOf(Strip(RawText(sapIn)))
        IN  /\ (sapIn.kind = "none" \/ Strip(RawText(sapIn)) = <<>>) => sapOut = <<>>
            /\ Len(ds) >= 5 => sapOut = SubSeq(ds, Len(ds) - 4, Len(ds))
            /\ Len(ds) < 5 => sapOut = ds
            /\ sapIn = StrVal(S_SAP_00123) => sapOut = S_00123
            /\ sapIn = StrVal(<<"1", "2">>) => sapOut = <<"1", "2">>
            /\ sapIn = StrVal(<<>>) => sapOut = <<>>

\* "SAP-00123" has been normalized to "00123"
C8_Witness == sapPc = "out" /\ sapIn = StrVal(S_SAP_00123) /\ sapOut = S_00123

-----------------------------------------------------------------------------
(* Properties of the date normalizer (checked under SpecDate) *)

\* strictly of the form YYYY-MM-DD: four digits, dash, two digits, dash, two digits
IsStrictYMD(t) ==
    /\ Len(t) = 10
    /\ \A i \in {1, 2, 3, 4, 6, 7, 9, 10} : IsDigit(t[i])
    /\ t[5] = "-" /\ t[8] = "-"

\* a strict YYYY-MM-DD text that names a day of the calendar
IsCalendarYMD(t) ==
    /\ IsStrictYMD(t)
    /\ LET yy == DigitsToNat(SubSeq(t, 1, 4))
           mm == DigitsToNat(SubSeq(t, 6, 7))
           dd == DigitsToNat(SubSeq(t, 9, 10))
       IN  yy >= 1 /\ mm \in 1..12 /\ dd >= 1 /\ dd <= DaysInMonth(yy, mm)

\* Y-MM-DD, YY-MM-DD or YYY-MM-DD: a year below 1000 printed without padding
IsShortYearYMD(t) ==
    \E w \in 1..3 :
        /\ Len(t) = w + 6
        /\ \A i \in (1..w) \cup {w + 2, w + 3, w + 5, w + 6} : IsDigit(t[i])
        /\ t[w + 1] = "-" /\ t[w + 4] = "-"

NoPatternParses(t) == \A k \in 1..Len(DateFormats) : strptime(t, DateFormats[k]).kind = "none"

\* C9 as stated: every value returned by normalize_date is the empty string, a
\* "no expiry" sentinel, or strictly of the form YYYY-MM-DD.
C9_ThreeShapes ==
    datePc # "in" =>
        \/ dateOut = <<>>
        \/ Lower(dateOut) \in Sentinels
        \/ IsStrictYMD(dateOut)

\* C9 as amended: every value returned by normalize_date is the empty string, the
\* trimmed text itself when it is a sentinel, the rendering of a calendar date
\* (strictly YYYY-MM-DD; the year unpadded where the platform does not pad years
\* below 1000), or the trimmed text itself when none of the patterns parses it.
C9_FourShapes ==
    datePc # "in" =>
        \/ dateOut = <<>>
        \/ dateIn.kind = "str" /\ dateOut = Strip(dateIn.s) /\ Lower(dateOut) \in Sentinels
        \/ IsCalendarYMD(dateOut)
        \/ ~padY /\ IsShortYearYMD(dateOut)
        \/ dateIn.kind = "str" /\ dateOut = Strip(dateIn.s) /\ NoPatternParses(dateOut)

\* a text that no pattern parses has been returned as it is
C9_Witness ==
    /\ datePc = "once"
    /\ dateIn = StrVal(<<"a", "b", "c">>)
    /\ dateOut = <<"a", "b", "c">>

\* C10: when normalize_date(v) is a YYYY-MM-DD string, normalizing that string
\* again returns the same string.
C10_Idempotent ==
    (datePc = "twice" /\ IsStrictYMD(dateOut)) => dateOut2 = dateOut

\* a text in another pattern has been rewritten to YYYY-MM-DD and normalized again
C10_Witness ==
    /\ datePc = "twice"
    /\ dateIn.kind = "str"
    /\ Strip(dateIn.s) # dateOut
    /\ IsStrictYMD(dateOut)
    /\ dateOut2 = dateOut

-----------------------------------------------------------------------------
(* Properties of convert_certificates (checked under Spec) *)

SeqRange(q) == {q[i] : i \in 1..Len(q)}

KeysOf(rows) == {KeyOf(rows[i]) : i \in 1..Len(rows)}

NoSharedKey(rows) ==
    \A i \in 1..Len(rows), j \in 1..Len(rows) : i # j => KeyOf(rows[i]) # KeyOf(rows[j])

SetMin(S) == CHOOSE x \in S : \A y \in S : x <= y

\* the records of raw_rows that have the key
Group(key) == {j \in 1..Len(raw_rows) : KeyOf(raw_rows[j]) = key}

\* the expiry date of the record parses as a strict YYYY-MM-DD date
Parseable(rec) == IsCalendarYMD(rec.ExpiryDate)

\* a strict YYYY-MM-DD text as a number that orders like the date
YMDNum(t) ==
    DigitsToNat(SubSeq(t, 1, 4)) * 10000 + DigitsToNat(SubSeq(t, 6, 7)) * 100
    + DigitsToNat(SubSeq(t, 9, 10))

\* the records of a group whose expiry date parses
ParseableOf(G) == {j \in G : Parseable(raw_rows[j])}

\* the records of a group that carry the latest parseable date of the group
LatestOf(G) ==
    {j \in ParseableOf(G) :
        \A k \in ParseableOf(G) : YMDNum(raw_rows[j].ExpiryDate) >= YMDNum(raw_rows[k].ExpiryDate)}

S_2024_01_01 == <<"2", "0", "2", "4", "-", "0", "1", "-", "0", "1">>
S_2025_06_01 == <<"2", "0", "2", "5", "-", "0", "6", "-", "0", "1">>

\* C1: after the deduplication pass the output holds exactly one record for
\* every IdentityKey of the input: no key of the input is missing, no two output
\* rows share a key (and so it is for the dict after every turn of the loop).
C1_OneRecordPerKey ==
    /\ certPc \in {"dedup", "done"} =>
          /\ KeysOf(DictValues(best_per_cert)) = KeysOf(SubSeq(raw_rows, 1, di - 1))
          /\ NoSharedKey(DictValues(best_per_cert))
    /\ certPc = "done" =>
          /\ KeysOf(out_rows) = KeysOf(raw_rows)
          /\ NoSharedKey(out_rows)

\* three records in two groups have been written as two rows
C1_Witness ==
    /\ certPc = "done"
    /\ Len(raw_rows) = 3
    /\ Cardinality(KeysOf(raw_rows)) = 2
    /\ Len(out_rows) = 2

\* C2: the survivor of a group carries the latest parseable expiry date of the
\* group when a record of the group has a parseable date (a record without one
\* never survives over one with one), and is the first-seen record otherwise.
C2_LatestExpirySurvives ==
    certPc = "done" =>
        \A i \in 1..Len(out_rows) :
            LET o == out_rows[i]
                G == Group(KeyOf(o))
            IN  IF ParseableOf(G) # {}
                THEN /\ Parseable(o)
                     /\ \A j \in ParseableOf(G) :
                            YMDNum(o.ExpiryDate) >= YMDNum(raw_rows[j].ExpiryDate)
                ELSE o = raw_rows[SetMin(G)]

\* a group with an unparseable date, 2025-06-01 and 2024-01-01, in that order,
\* has kept the 2025-06-01 record
C2_Witness ==
    /\ certPc = "done"
    /\ Len(raw_rows) = 3
    /\ Cardinality(KeysOf(raw_rows)) = 1
    /\ ~Parseable(raw_rows[1]) /\ raw_rows[1].ExpiryDate # <<>>
    /\ raw_rows[2].ExpiryDate = S_2025_06_01
    /\ raw_rows[3].ExpiryDate = S_2024_01_01
    /\ Len(out_rows) = 1
    /\ out_rows[1] = raw_rows[2]

Perms(n) == {p \in [1..n -> 1..n] : \A a \in 1..n, b \in 1..n : a # b => p[a] # p[b]}

Permuted(rows, p) == [i \in 1..Len(rows) |-> rows[p[i]]]

\* the winners of the deduplication when it runs over the records in the order p
WinnersInOrder(p) == DedupFrom(<<>>, Permuted(raw_rows, p), 1)

\* the record a dict of winners holds for the key
Survivor(best, key) == best[CHOOSE i \in 1..Len(best) : best[i].key = key].row

\* C3 as stated: for a group with a parseable date, every ordering of the records
\* retains the same record, equal in every field.
C3_SameRecordAnyOrder ==
    certPc = "done" =>
        \A p \in Perms(Len(raw_rows)) :
            LET best == WinnersInOrder(p)
            IN  \A i \in 1..Len(out_rows) :
                    ParseableOf(Group(KeyOf(out_rows[i]))) # {}
                    => Survivor(best, KeyOf(out_rows[i])) = out_rows[i]

\* C3 as amended: for a group with a parseable date, every ordering of the
\* records retains a record with the same ExpiryDate, the latest of the group;
\* the retained record is the first-seen of the records that carry that date,
\* so it is the same in every field unless records that differ in another field
\* share the latest date.
C3_SameExpiryAnyOrder ==
    certPc = "done" =>
        \A i \in 1..Len(out_rows) :
            LET G == Group(KeyOf(out_rows[i]))
                L == LatestOf(G)
            IN  ParseableOf(G) # {} =>
                    /\ out_rows[i] = raw_rows[SetMin(L)]
                    /\ \A p \in Perms(Len(raw_rows)) :
                          LET s == Survivor(WinnersInOrder(p), KeyOf(out_rows[i]))
                          IN  /\ s.ExpiryDate = out_rows[i].ExpiryDate
                              /\ s = raw_rows[p[SetMin({a \in 1..Len(raw_rows) : p[a] \in L})]]
                              /\ (\A j \in L, k \in L : raw_rows[j] = raw_rows[k])
                                 => s = out_rows[i]

\* two records of one group share the latest date and differ in another field:
\* the first-seen of them has been retained
C3_Witness ==
    /\ certPc = "done"
    /\ Len(raw_rows) = 2
    /\ KeyOf(raw_rows[1]) = KeyOf(raw_rows[2])
    /\ Parseable(raw_rows[1])
    /\ raw_rows[1].ExpiryDate = raw_rows[2].ExpiryDate
    /\ raw_rows[1] # raw_rows[2]
    /\ out_rows = <<raw_rows[1]>>

\* the calendar date an expiry cell holds: the datetime itself, or the date the
\* first matching pattern reads from the text; None if it holds no date
CellDate(v) ==
    IF v.kind = "datetime" THEN v
    ELSE IF v.kind # "str" THEN NoneVal
    ELSE LET t == Strip(v.s)
             K == {k \in 1..Len(DateFormats) : strptime(t, DateFormats[k]).kind # "none"}
         IN  IF K = {} THEN NoneVal ELSE strptime(t, DateFormats[SetMin(K)])

\* the source rows i and j hold the same cells except for two different dates in
\* the resolved expiry column
DifferOnlyInExpiry(i, j) ==
    /\ ix.iExp # 0
    /\ \A c \in 1..WsMaxColumn(ws) : c # ix.iExp => WsCell(ws, i, c) = WsCell(ws, j, c)
    /\ CellDate(WsCell(ws, i, ix.iExp).value).kind # "none"
    /\ CellDate(WsCell(ws, j, ix.iExp).value).kind # "none"
    /\ CellDate(WsCell(ws, i, ix.iExp).value) # CellDate(WsCell(ws, j, ix.iExp).value)

LaterDate(a, b) == IF DateGT(a, b) THEN a ELSE b

\* C4: two source rows for the same person and certificate that differ only in
\* their expiry date come out as exactly one data row, and that row carries the
\* later of the two dates (a still later date if a third row of the same person
\* and certificate has one).
C4_EndToEndLaterDate ==
    certPc = "done" =>
        \A i \in 2..WsMaxRow(ws), j \in 2..WsMaxRow(ws) :
            DifferOnlyInExpiry(i, j) =>
                LET later == strftime(LaterDate(CellDate(WsCell(ws, i, ix.iExp).value),
                                                CellDate(WsCell(ws, j, ix.iExp).value)))
                    A == {a \in 1..Len(raw_from) : raw_from[a] \in {i, j}}
                    O == {o \in 1..Len(out_rows) :
                            \E a \in A : KeyOf(out_rows[o]) = KeyOf(raw_rows[a])}
                IN  /\ Cardinality(A) = 2
                    /\ Cardinality(O) = 1
                    /\ \A o \in O :
                          /\ Parseable(out_rows[o])
                          /\ YMDNum(out_rows[o].ExpiryDate) >= YMDNum(later)
                          /\ (\A g \in Group(KeyOf(out_rows[o])) :
                                  Parseable(raw_rows[g])
                                  => YMDNum(raw_rows[g].ExpiryDate) <= YMDNum(later))
                             => out_rows[o].ExpiryDate = later

\* a sheet of two rows that differ only in the expiry date, the later date second,
\* has been written as one row with the later date
C4_Witness ==
    /\ certPc = "done"
    /\ WsMaxRow(ws) = 3
    /\ DifferOnlyInExpiry(2, 3)
    /\ DateGT(CellDate(WsCell(ws, 3, ix.iExp).value), CellDate(WsCell(ws, 2, ix.iExp).value))
    /\ Len(out_rows) = 1
    /\ out_rows[1].ExpiryDate = S_2025_06_01

\* a value that is there: not None and not the empty text
NonEmptyValue(v) == ~(v.kind = "none" \/ (v.kind = "str" /\ v.s = <<>>))

\* the one identifier the claim chooses for the person of a record
ChosenPerson(rec) ==
    IF NonEmptyValue(rec.staffGID) THEN rec.staffGID
    ELSE IF rec.staffSAP # <<>> THEN StrVal(rec.staffSAP)
    ELSE rec.Employee_Name

ChosenKey(rec) == <<ChosenPerson(rec), rec.CertName>>

SomeFieldNonEmpty(rec) ==
    \/ NonEmptyValue(rec.Employee_Name) \/ NonEmptyValue(rec.Service)
    \/ NonEmptyValue(rec.staffGID) \/ rec.staffSAP # <<>> \/ rec.CertName # <<>>
    \/ rec.IssuedDate # <<>> \/ rec.ExpiryDate # <<>>
    \/ NonEmptyValue(rec.Future_Certificates) \/ rec.DownloadLink # <<>>

\* C6: a source row reaches the Deduplication Engine if and only if at least one
\* of its nine logical fields is non-empty after normalization.
C6_KeptIffNonEmpty ==
    certPc \in {"dedup", "done"} =>
        \A i \in 2..WsMaxRow(ws) :
            (i \in SeqRange(raw_from)) <=> SomeFieldNonEmpty(ReadRecord(ws, ix, i))


\* the keys of rows in the order of their first occurrence, from row i on
RECURSIVE FirstSeenKeys(_, _, _)
FirstSeenKeys(rows, i, seen) ==
    IF i > Len(rows) THEN seen
    ELSE IF KeyOf(rows[i]) \in SeqRange(seen) THEN FirstSeenKeys(rows, i + 1, seen)
    ELSE FirstSeenKeys(rows, i + 1, Append(seen, KeyOf(rows[i])))

\* C30: every data row written by convert_certificates is equal in all nine
\* fields to one normalized input record of its own IdentityKey, and the rows
\* are written in the order in which their IdentityKeys first occurred in the
\* input, also when a later record replaced the first-seen one.
C30_NoMergeFirstSeenOrder ==
    certPc = "done" =>
        /\ \A j \in 1..Len(out_rows) : \E i \in 1..Len(raw_rows) : out_rows[j] = raw_rows[i]
        /\ [j \in 1..Len(out_rows) |-> KeyOf(out_rows[j])] = FirstSeenKeys(raw_rows, 1, <<>>)

\* the third record replaced the first one, whose key occurred before the key
\* of the second: it is written first
C30_Witness ==
    /\ certPc = "done"
    /\ Len(raw_rows) = 3
    /\ KeyOf(raw_rows[1]) = KeyOf(raw_rows[3])
    /\ KeyOf(raw_rows[1]) # KeyOf(raw_rows[2])
    /\ raw_rows[1] # raw_rows[3]
    /\ out_rows = <<raw_rows[3], raw_rows[2]>>
-----------------------------------------------------------------------------
(* Properties of the Header Resolver (checked under SpecHdr and SpecLink) *)

Blank(c) == c \in {" ", "\t"}

\* the text without its leading and trailing blanks
Trimmed(t) ==
    LET N == {i \in 1..Len(t) : ~Blank(t[i])}
    IN  IF N = {} THEN <<>>
        ELSE SubSeq(t, CHOOSE i \in N : \A j \in N : i <= j, CHOOSE i \in N : \A j \in N : i >= j)

Uppers == <<"A", "B", "C", "D", "E", "F", "G", "H", "I", "J", "K", "L", "M",
            "N", "O", "P", "Q", "R", "S", "T", "U", "V", "W", "X", "Y", "Z">>
Lowers == <<"a", "b", "c", "d", "e", "f", "g", "h", "i", "j", "k", "l", "m",
            "n", "o", "p", "q", "r", "s", "t", "u", "v", "w", "x", "y", "z">>

\* the same character, or the capital and the small form of one letter
SameLetter(c, d) ==
    \/ c = d
    \/ \E k \in 1..26 : {c, d} = {Uppers[k], Lowers[k]}

\* two texts that differ only in case and in blanks around them
TextsAlike(s, t) ==
    /\ Len(Trimmed(s)) = Len(Trimmed(t))
    /\ \A i \in 1..Len(Trimmed(s)) : SameLetter(Trimmed(s)[i], Trimmed(t)[i])

\* two header cells that differ only in case and in blanks around the label
CellsAlike(a, b) ==
    \/ a.value.kind = "none" /\ b.value.kind = "none"
    \/ a.value.kind = "str" /\ b.value.kind = "str" /\ TextsAlike(a.value.s, b.value.s)

RowsAlike(a, b) ==
    /\ Len(a) = Len(b)
    /\ \A c \in 1..Len(a) : CellsAlike(a[c], b[c])

\* C11: two header rows whose cells differ only in case or in blanks around the
\* label give the same HeaderMap, and every lookup with _idx returns the same
\* column for both.
C11_CaseAndBlanksIgnored ==
    (hdrPc \in {"indexed", "looked"} /\ recipe = "none" /\ RowsAlike(hdrA[1], hdrB[1])) =>
        /\ mpA = mpB
        /\ \A names \in HdrSynonyms : _idx(mpA, names) = _idx(mpB, names)
        /\ hdrPc = "looked" => idxA = idxB

\* two rows that differ in case and in blanks have been looked up, and the label
\* was found
C11_Witness ==
    /\ hdrPc = "looked"
    /\ RowsAlike(hdrA[1], hdrB[1])
    /\ \E c \in 1..Len(hdrA[1]) :
          /\ hdrA[1][c].value.kind = "str"
          /\ Trimmed(hdrA[1][c].value.s) # hdrA[1][c].value.s
          /\ hdrB[1][c].value.s = Lower(Trimmed(hdrA[1][c].value.s))
          /\ hdrB[1][c].value.s # Trimmed(hdrA[1][c].value.s)
    /\ idxA # 0
    /\ idxA = idxB

\* the places of the synonyms of hdrNames that are labels of mpA
LabelsFound == {i \in 1..Len(hdrNames) : hdrNames[i] \in DOMAIN mpA}

\* C12: _idx returns the column of the first synonym, in the order of the list,
\* that is a label of the HeaderMap, whatever the columns of the sheet are, and
\* None exactly when no synonym is a label.
C12_FirstSynonymWins ==
    (hdrPc = "looked" /\ recipe = "none") =>
        /\ idxA = 0 <=> LabelsFound = {}
        /\ LabelsFound # {} =>
              /\ idxA = mpA[hdrNames[SetMin(LabelsFound)]]
              /\ idxA \in 1..WsMaxColumn(hdrA)
              /\ Lower(Trimmed(hdrA[1][idxA].value.s)) = hdrNames[SetMin(LabelsFound)]

\* the second synonym is in column 1, the first in column 2: column 2 is returned
C12_Witness ==
    /\ hdrPc = "looked"
    /\ hdrNames = Syn_Emp
    /\ S_name \in DOMAIN mpA /\ mpA[S_name] = 1
    /\ S_naam \in DOMAIN mpA /\ mpA[S_naam] = 2
    /\ idxA = 2

\* the cell holds a hyperlink-shaped value: a hyperlink, or a text that is a URL
HyperlinkShaped(cell) ==
    \/ cell.hyperlink # <<>>
    \/ /\ cell.value.kind = "str"
       /\ \E pre \in {<<"h", "t", "t", "p", ":", "/", "/">>, <<"h", "t", "t", "p", "s", ":", "/", "/">>} :
              Len(cell.value.s) >= Len(pre) /\ SubSeq(cell.value.s, 1, Len(pre)) = pre

\* the synonyms of the link field of the recipe
LinkSynonymsOf(rcp) ==
    CASE rcp = "certificates" -> Syn_Link
      [] rcp = "competences" -> Syn_Link_Comp
      [] rcp = "cert_results" -> Syn_Link_Res

\* the columns of the header row whose label is a synonym of the link field
LinkLabelColumns ==
    {c \in 1..Len(hdrA[1]) :
        /\ hdrA[1][c].value.kind = "str"
        /\ \E k \in 1..Len(LinkSynonymsOf(recipe)) :
              TextsAlike(hdrA[1][c].value.s, LinkSynonymsOf(recipe)[k])}

\* the cell of data row 2 in column c
Row2Cell(c) == IF Len(hdrA) >= 2 /\ c \in 1..Len(hdrA[2]) THEN hdrA[2][c] ELSE EmptyCell

\* C13 as stated: in every recipe with a link field, when no synonym matches a
\* header label the link field is column 8 if the cell in row 2 of column 8 holds
\* a hyperlink-shaped value, and absent otherwise; no other column is adopted.
C13_FallbackIsColumn8 ==
    (hdrPc = "resolved" /\ LinkLabelColumns = {}) =>
        iLink = (IF HyperlinkShaped(Row2Cell(8)) THEN 8 ELSE 0)

\* the columns the detection of convert_cert_results looks at
ProbedColumns == {c \in 1..Len(hdrA[1]) : c <= 19}

\* C13 as amended: when no synonym matches, convert_certificates and
\* convert_competences resolve the link field to column 8 if the cell in row 2 of
\* column 8 holds a hyperlink-shaped value and leave it absent otherwise;
\* convert_cert_results adopts the leftmost of the first 19 columns whose cell in
\* row 2 holds a hyperlink-shaped value, and leaves the field absent if there is
\* none.  With a matching label no recipe falls back.
C13_FallbackPerRecipe ==
    hdrPc = "resolved" =>
        /\ (LinkLabelColumns = {} /\ recipe \in {"certificates", "competences"}) =>
              iLink = (IF HyperlinkShaped(Row2Cell(8)) THEN 8 ELSE 0)
        /\ (LinkLabelColumns = {} /\ recipe = "cert_results") =>
              LET H == {c \in ProbedColumns : HyperlinkShaped(Row2Cell(c))}
              IN  iLink = (IF H = {} THEN 0 ELSE SetMin(H))
        /\ LinkLabelColumns # {} => iLink \in LinkLabelColumns

\* convert_cert_results, no header label for the link, hyperlinks in row 2 of
\* column 3 and of column 8: the link field is column 3
C13_Witness ==
    /\ hdrPc = "resolved"
    /\ recipe = "cert_results"
    /\ LinkLabelColumns = {}
    /\ Row2Cell(8).hyperlink # <<>>
    /\ Row2Cell(3).hyperlink # <<>>
    /\ iLink = 3

-----------------------------------------------------------------------------
(* Properties of the Format Normalizer *)

\* the call of ensure_xlsx_from_xls has returned or raised
CallOver == xPc \in {"returned", "raised"}

\* positions of the calls of op on the application or its workbook
CallsOf(op) == {i \in DOMAIN comLog : comLog[i].op = op}

Acquired == CallsOf("DispatchEx") # {}

Opened == \E i \in CallsOf("Open") : comLog[i].ok

\* a step after the acquisition raised: a property, Open, SaveAs, Close or Quit
StepFailed == comFailed \in {"config", "open", "saveas"} \/ \E i \in DOMAIN comLog : ~comLog[i].ok

\* C14 (as stated): once the application is acquired, Quit is called exactly
\* once before the call is over, an opened workbook is closed before that, and
\* a failure of any later step, the closing of the workbook included, reaches
\* the caller as an error.
C14_EveryFailureReported ==
    (CallOver /\ Acquired) =>
        /\ Cardinality(CallsOf("Quit")) = 1
        /\ Opened => \E i \in CallsOf("Close") : \A j \in CallsOf("Quit") : i < j
        /\ StepFailed => xPc = "raised"

\* C14 (amended): once the application is acquired, Quit is called exactly once,
\* as the last call, before the call is over, and never without an acquisition;
\* an opened workbook is closed exactly once, before Quit; a failure of a
\* property, of Open or of SaveAs reaches the caller as an error, and a call
\* whose SaveAs succeeded returns the sibling whatever Close and Quit did.
C14_ReleasedOnceStepFailureReported ==
    CallOver =>
        /\ Cardinality(CallsOf("Quit")) = (IF Acquired THEN 1 ELSE 0)
        /\ Acquired => comLog[Len(comLog)].op = "Quit"
        /\ Cardinality(CallsOf("Close")) = (IF Opened THEN 1 ELSE 0)
        /\ Opened => \A i \in CallsOf("Close") : \A j \in CallsOf("Quit") : i < j
        /\ ~excel /\ ~wb
        /\ comFailed \in {"dispatch", "config", "open", "saveas"} => xPc = "raised"
        /\ (\E i \in CallsOf("SaveAs") : comLog[i].ok) => xPc = "returned" /\ xRet = "sibling"

\* SaveAs raised on an opened workbook: Close, then Quit, then the error
C14_Witness ==
    /\ xPc = "raised" /\ comFailed = "saveas"
    /\ Len(comLog) = 5
    /\ comLog[2] = [op |-> "Open", ok |-> TRUE]
    /\ comLog[3] = [op |-> "SaveAs", ok |-> FALSE]
    /\ comLog[4].op = "Close" /\ comLog[5].op = "Quit"

\* the call is past its entry and not yet handed back
InCall == xPc \notin {"ready", "entry", "found", "find_raised"}

\* at entry the sibling existed, could be read and was not older than the source
FreshAtEntry ==
    sibAtEntry.exists /\ sibAtEntry.access # "nostat" /\ sibAtEntry.mtime >= srcMtime

\* at entry the sibling existed and was older than the source
StaleAtEntry == sibAtEntry.exists /\ sibAtEntry.mtime < srcMtime

\* C16: a path that is no legacy file is returned unchanged; a legacy file
\* whose sibling is not older than it gets the sibling, with no strategy
\* invoked; a call that follows a call that returned returns the same path and
\* invokes no strategy; a sibling that was older than the source at entry is
\* never what a call returns.
C16_IdempotentCacheAware ==
    InCall =>
        /\ ~IsLegacy(xSuffix) =>
              xPc = "returned" /\ xRet = "src" /\ strategies = {} /\ comLog = <<>>
        /\ (IsLegacy(xSuffix) /\ FreshAtEntry) =>
              xPc = "returned" /\ xRet = "sibling" /\ strategies = {} /\ comLog = <<>>
                 /\ sib = sibAtEntry
        /\ prevCall.outcome = "returned" =>
              xPc = "returned" /\ xRet = prevCall.ret /\ strategies = {} /\ sib = sibAtEntry
        /\ (IsLegacy(xSuffix) /\ StaleAtEntry /\ xPc = "returned") =>
              strategies # {} /\ produced # "none" /\ sib # sibAtEntry /\ sib.mtime >= srcMtime

\* the second call on a source that the first call converted
C16_Witness ==
    /\ calls = 2 /\ xPc = "returned"
    /\ prevCall.outcome = "returned" /\ prevCall.produced = "primary"
    /\ xRet = "sibling" /\ strategies = {}

\* the call was answered by the cache check
CacheHit == strategies = {} /\ FreshAtEntry /\ sib = sibAtEntry

\* the secondary strategy is attempted only when the primary is unavailable or
\* was invoked and produced nothing
SecondaryOnlyAfterPrimary ==
    "secondary" \in strategies =>
        /\ ~haveXlrd \/ "primary" \in strategies
        /\ produced # "primary"

\* C17 (as stated): a call on a legacy file returns a sibling that exists and is
\* non-empty or fails; it fails whenever no strategy produced the file; the
\* secondary strategy follows only an unavailable or failed primary; and
\* find_latest_input answers a failed conversion with no input.
C17_NonEmptyOrNoInput ==
    /\ [](/\ (xPc = "returned" /\ IsLegacy(xSuffix)) =>
                xRet = "sibling" /\ sib.exists /\ sib.size > 0
          /\ (xPc = "returned" /\ IsLegacy(xSuffix) /\ strategies # {}) => produced # "none"
          /\ SecondaryOnlyAfterPrimary)
    /\ [][(xPc = "raised" /\ xCaller = "find") => (xPc' = "found" /\ bestInput' = "none")]_vars

\* C17 (amended): a call on a legacy file returns the sibling, which exists, or
\* fails; a returned sibling is either the file a strategy has just written,
\* non-empty and not older than the source, or the file the cache check found,
\* whatever its size; the call fails exactly when no strategy produced the file;
\* the secondary strategy follows only an unavailable or failed primary; and
\* find_latest_input catches the failure and answers with the sibling if one
\* exists, with no input otherwise.
C17_ExistingSiblingOrFallback ==
    /\ [](/\ (xPc = "returned" /\ IsLegacy(xSuffix)) =>
                /\ xRet = "sibling" /\ sib.exists
                /\ \/ CacheHit /\ produced = "none"
                   \/ produced # "none" /\ sib = WrittenFile /\ sib.size > 0
          /\ xPc = "raised" => IsLegacy(xSuffix) /\ produced = "none" /\ ~CacheHit
          /\ SecondaryOnlyAfterPrimary)
    /\ [][(xPc = "raised" /\ xCaller = "find") =>
             /\ xPc' = "found"
             /\ bestInput' = (IF sib.exists THEN "sibling" ELSE "none")]_vars

\* find_latest_input after a failed conversion that left an empty file behind
C17_Witness ==
    /\ xPc = "found" /\ prevCall.outcome = "raised"
    /\ strategies = {"primary", "secondary"}
    /\ sib.exists /\ sib.size = 0 /\ bestInput = "sibling"

-----------------------------------------------------------------------------
(* Properties of the Staff-master refresh and of the Pipeline Driver *)

\* the refresh has been left, by return or by an exception
StaffOver == sPc \in {"returned", "raised"}

StaffCalled(op, on) == \E i \in DOMAIN sLog : sLog[i].op = op /\ sLog[i].on = on

\* C15: once the application has been started, the refresh does not end, by
\* return or by an exception, without Quit called on the application, Close
\* called on the master work-copy if it was opened and Close called on the copied
\* export workbook if it was created.
C15_ReleasedOnEveryExit ==
    (StaffOver /\ staff_excel # "none") =>
        /\ StaffCalled("Quit", "excel")
        /\ staff_wb # "none" => StaffCalled("Close", "wb")
        /\ new_wb # "none" => StaffCalled("Close", "new_wb")

\* positions of the events ev in the history of the run
EventsOf(evs) == {i \in DOMAIN trace : trace[i].ev \in evs}

\* the recipe of kind dk was called
Attempted(dk) == \E i \in EventsOf({"begin"}) : trace[i].dk = dk

\* C18: in the order Certificates, Competences, Training, Certification Results,
\* a missing input or an exception of one recipe does not keep a later recipe
\* from being called, and the outcome of a kind, once recorded, is not changed.
C18_DatasetFailuresIsolated ==
    /\ [](/\ \A dk \in DOMAIN Datasets :
                /\ convResult[dk] \in {"ok", "failed"} => located[dk] = "file" /\ Attempted(dk)
                /\ convResult[dk] = "skipped" => located[dk] = "none"
                /\ convResult[dk] # "pending" => \A e \in 1..(dk - 1) : convResult[e] # "pending"
          /\ mPc \in {"summary", "done"} => \A dk \in DOMAIN Datasets : convResult[dk] # "pending")
    /\ [][/\ \A dk \in DOMAIN Datasets :
                convResult[dk] # "pending" => convResult'[dk] = convResult[dk]
          /\ mPc \in {"convert", "converting"} => mPc' \in {"convert", "converting", "summary"}]_vars

\* Certificates failed, Competences had no input, Training and Certification
\* Results were converted
C18_Witness ==
    /\ mPc = "done"
    /\ convResult = <<"failed", "skipped", "ok", "ok">>

\* C19: no failure leaves main, and the run reaches the final summary.
C19_RunAlwaysCompletes == [](mPc # "aborted") /\ <>(mPc = "done")

Before(i, evs) == \E j \in EventsOf(evs) : j < i

\* C20 (as stated): the refresh has finished before any input is located or
\* format-normalized and before the LookupTable is built, and the datasets are
\* handled one after another.
C20_StaffRefreshFirst ==
    /\ \A i \in EventsOf({"locate", "com_convert", "lookup"}) : Before(i, {"staff_end"})
    /\ \A i \in EventsOf({"begin"}), j \in EventsOf({"begin"}) :
          i < j => trace[i].dk < trace[j].dk /\ \E m \in EventsOf({"end"}) : i < m /\ m < j

\* C20 (amended): the four inputs are located, and format-normalized where
\* needed, before the refresh starts; the refresh has finished before any
\* dataset step starts and before the LookupTable is built; the datasets are
\* handled one after another in their order.
C20_LocateThenStaffThenDatasets ==
    /\ \A i \in EventsOf({"locate", "com_convert"}) :
          \A j \in 1..(i - 1) : trace[j].ev \in {"locate", "com_convert"}
    /\ \A i \in EventsOf({"staff_begin"}) :
          {trace[j].dk : j \in {m \in EventsOf({"locate"}) : m < i}} = DOMAIN Datasets
    /\ \A i \in EventsOf({"begin", "skip", "lookup", "end"}) : Before(i, {"staff_end"})
    /\ \A i \in EventsOf({"begin"}), j \in EventsOf({"begin", "skip"}) :
          i < j => trace[i].dk < trace[j].dk /\ \E m \in EventsOf({"end"}) : i < m /\ m < j
    /\ \A i \in EventsOf({"skip"}), j \in EventsOf({"begin", "skip"}) :
          i < j => trace[i].dk < trace[j].dk

\* a run in which the external application converted an input file before the
\* refresh started it again, and the LookupTable was built after the refresh
C20_Witness ==
    /\ mPc = "done"
    /\ \E i \in EventsOf({"com_convert"}), j \in EventsOf({"staff_begin"}) : i < j
    /\ staff_excel = "quit"
    /\ \E i \in EventsOf({"staff_end"}), j \in EventsOf({"lookup"}) : i < j

-----------------------------------------------------------------------------
(* Properties of convert_cert_results *)

\* the writing loop is over and the output workbook is saved
ResWritten == resPc \in {"style", "done"}

\* the emitted records whose non-empty group identifier is no key of the table
AbsentFromTable ==
    {j \in 1..Len(res_rows) :
        res_rows[j].staffGID # <<>> /\ TableFind(gid_to_sap, res_rows[j].staffGID) = 0}

\* C21: every emitted record has the LookupTable value of its group identifier
\* as staffSAPNR when the identifier is a key of the table and an empty
\* staffSAPNR otherwise, and the reported "missing lookup" counter is the
\* number of emitted records whose non-empty group identifier is absent from
\* the table.
C21_MissingCounterCountsAbsentKeys ==
    ResWritten =>
        /\ \A j \in 1..Len(res_rows) :
              res_rows[j].staffSAPNR =
                  (IF TableFind(gid_to_sap, res_rows[j].staffGID) # 0
                   THEN TableGet(gid_to_sap, res_rows[j].staffGID) ELSE <<>>)
        /\ missing_gid = Cardinality(AbsentFromTable)

\* C22: every entry of the LookupTable has a non-empty group identifier as key
\* and a non-empty normalized identifier number as value.
C22_LookupEntriesNonEmpty ==
    \A i \in 1..Len(gid_to_sap) : gid_to_sap[i].key # <<>> /\ gid_to_sap[i].val # <<>>

\* the source rows of which some cell holds a value
NonEmptySourceRows ==
    {rw \in 2..WsMaxRow(resWs) : \E cl \in 1..WsMaxColumn(resWs) : WsCell(resWs, rw, cl).value # NoneVal}

\* the source rows that pass the row filter of the recipe
KeptSourceRows ==
    {rw \in 2..WsMaxRow(resWs) : ResAny(ReadResRecord(resWs, ResolveResColumns(resWs), <<>>, rw))}

FullExtentTable ==
    [name |-> "tblCertResults",
     ref  |-> [c1 |-> 1, r1 |-> 1, c2 |-> Len(ResOutHeaders), r2 |-> 1 + Len(res_rows)]]

\* C24: with a header row and no data row the styling step adds no table and
\* keeps the file; with at least one data row a styling step that does not
\* fail adds exactly one table, from A1 to the last written column and row;
\* a styling step that fails adds none; and the step always ends the recipe
\* normally.
C24_TableWriterDegrades ==
    /\ [](/\ resPc = "style" =>
               /\ resDst /\ tables = <<>>
               /\ add_table_to_sheet(tables, 1 + Len(res_rows), Len(ResOutHeaders),
                                     "tblCertResults", "none")
                     = (IF Len(res_rows) = 0 THEN <<>> ELSE <<FullExtentTable>>)
               /\ \A fails \in {"load", "save"} :
                     add_table_to_sheet(tables, 1 + Len(res_rows), Len(ResOutHeaders),
                                        "tblCertResults", fails) = <<>>
          /\ resPc = "done" =>
               /\ resDst
               /\ Len(res_rows) = 0 => tables = <<>>
               /\ tables \in {<<>>, <<FullExtentTable>>})
    /\ [][resPc = "style" => resPc' = "done" /\ resDst']_vars

C24_Witness ==
    resPc = "done" /\ resDst /\ Len(res_rows) = 0 /\ WsMaxRow(resWs) = 3 /\ tables = <<>>

\* C25: an output that existed before the recipe was started exists when the
\* recipe has ended, whether it has returned or raised.
C25_OutputSurvivesRecipe ==
    resDstBefore /\ resPc \in {"done", "raised"} => resDst

-----------------------------------------------------------------------------
(* Properties of convert_training *)

\* the value rec holds for the field read through the column index i is empty
\* when the column was not found
EmptyIfAbsent(i, v) == i = 0 => (v = <<>> \/ v = StrVal(<<>>))

\* every field of rec whose column was not found is empty
AbsentFieldsEmpty(rec, cols) ==
    /\ EmptyIfAbsent(cols.iName, rec.Employee_Name)
    /\ EmptyIfAbsent(cols.iGID, rec.staffGID)
    /\ EmptyIfAbsent(cols.iEmpNr, rec.staffSAPNR)
    /\ EmptyIfAbsent(cols.iService, rec.Service)
    /\ EmptyIfAbsent(cols.iCertName, rec.CertName)
    /\ EmptyIfAbsent(cols.iCategorie, rec.Categorie)
    /\ EmptyIfAbsent(cols.iStatut, rec.RequestStatus)
    /\ EmptyIfAbsent(cols.iDatum, rec.ScheduledDate)
    /\ EmptyIfAbsent(cols.iDuration, rec.Duration)
    /\ EmptyIfAbsent(cols.iLang, rec.Language)
    /\ EmptyIfAbsent(cols.iLocation, rec.Location)
    /\ EmptyIfAbsent(cols.iSite, rec.Site)

\* C26: for every header row, the empty one and the ones that lack critical
\* fields included, the column mapping of convert_training is made without an
\* exception, the missing critical columns are only recorded for the warning,
\* no cell is read through an absent column index, every emitted record holds
\* an empty value for every absent field, and the loop never raises on account
\* of the headers: it raises only on a non-text value read through a
\* certificate column that was found.
C26_SchemaMismatchNeverAborts ==
    /\ [](/\ trPc \in {"rows", "done"} =>
               /\ trIx = ResolveTrainColumns(trWs)
               /\ missing = MissingCritical(trIx)
          /\ 0 \notin trReads /\ trReads \subseteq 1..WsMaxColumn(trWs)
          /\ \A j \in 1..Len(tr_rows) : AbsentFieldsEmpty(tr_rows[j], trIx)
          /\ trPc = "raised" /\ tRow >= 3 =>
               /\ trIx.iCertName # 0
               /\ WsCell(trWs, tRow, trIx.iCertName).value.kind = "num")
    /\ [][trPc = "rows" /\ trIx.iCertName = 0 => trPc' \in {"rows", "done"}]_vars

C26_Witness ==
    /\ trPc = "done" /\ trDst
    /\ missing = <<"Naam/Name", "Opleiding/CertName">>
    /\ trIx.iGID = 2 /\ trIx.iEmpNr = 4
    /\ Len(tr_rows) = 2
    /\ tr_rows[1].Employee_Name = StrVal(<<>>) /\ tr_rows[1].staffGID # StrVal(<<>>)
    /\ trReads = {2, 4}

-----------------------------------------------------------------------------
(* Properties of find_latest_input *)

\* the newest modification time among the matching files at the call
NewestMtime ==
    CHOOSE t \in {inbox0[f] : f \in Globbed(inbox0)} : \A f \in Globbed(inbox0) : inbox0[f] <= t

\* the candidate the sort puts first is a most recently modified matching file
SelectsNewest ==
    fPc \in {"sorted", "found"} /\ Globbed(inbox0) # {} =>
        /\ cands[1] \in Globbed(inbox0)
        /\ inbox0[cands[1]] = NewestMtime

-----------------------------------------------------------------------------
(* Properties of the downloader scripts *)

\* the positions of the calls named ev in the log
CallsNamed(ev) == {i \in 1..Len(dLog) : dLog[i].ev = ev}

Attempts == Cardinality(CallsNamed("attempt_once"))

FailedAttempts == Cardinality(CallsNamed("raise"))

Notifications == Cardinality(CallsNamed("notify_failure"))

\* run has ended: by return, by SystemExit(1) or by an exception
DlOver == dPc \in {"returned", "exited", "crashed"}

\* the login was made
LoggedIn == attempt > 0

\* C28: after the login the download is attempted at most three times and a new
\* attempt begins only when every earlier one has failed; the attempt that
\* succeeds saves the session state, closes the context and the browser and
\* returns with no notification; notify_failure is called at most once, only
\* after three failed attempts and with the error of the third, and a run in
\* which three attempts failed calls it, closes the browser and ends with exit
\* code 1; and every run ends.
C28_RetryPolicy ==
    /\ [](/\ Attempts <= MaxAttempts
          /\ Attempts <= FailedAttempts + 1
          /\ Notifications <= 1
          /\ dPc = "returned" =>
                /\ exitCode = 0 /\ Notifications = 0 /\ ~ctxOpen /\ ~browserOpen
                /\ FailedAttempts = Attempts - 1
                /\ SubSeq(dLog, Len(dLog) - 2, Len(dLog))
                      = <<Call("storage_state", attempt), Call("ctx.close", attempt),
                          Call("browser.close", attempt)>>
          /\ Notifications = 1 =>
                /\ FailedAttempts = MaxAttempts /\ Attempts = MaxAttempts
                /\ dLog[Len(dLog)] = Call("notify_failure", MaxAttempts)
          /\ (FailedAttempts = MaxAttempts /\ dPc \notin {"handler", "notify"}) => Notifications = 1
          /\ (DlOver /\ LoggedIn /\ dPc # "returned") =>
                /\ FailedAttempts = MaxAttempts
                /\ exitCode = 1 /\ ~ctxOpen /\ ~browserOpen)
    /\ <>DlOver

\* three attempts failed, one of them after its download and the saving of the
\* session state, when the closing raised: the notification is sent once, with
\* the third error
C28_Witness ==
    /\ dPc = "exited" /\ exitCode = 1
    /\ Attempts = 3 /\ FailedAttempts = 3 /\ Notifications = 1
    /\ Cardinality(CallsNamed("storage_state")) = 1
    /\ dLog[Len(dLog)] = Call("notify_failure", 3)

-----------------------------------------------------------------------------
(* Properties of run_scripts_silent *)

\* the first n names of SCRIPT_NAMES
FirstScripts(n) == SubSeq(SCRIPT_NAMES, 1, n)

\* the login check has failed and nothing is started, or the downloaders are
\* started in their order, each after the one before has ended, whatever the
\* codes recorded so far; between two scripts sys.argv, stdout and stderr are
\* restored
SequencedDownloaders ==
    /\ authResult # "true" => started = <<>> /\ results = <<>> /\ silentRet \in {-1, 1}
    /\ (authResult # "true" /\ lPc = "done") => silentRet = 1
    /\ lPc \in {"scripts", "running"} =>
          /\ started = FirstScripts(IF lPc = "running" THEN scriptIx ELSE scriptIx - 1)
          /\ Len(results) = scriptIx - 1
    /\ lPc \in {"converter", "conv_running", "summary"} \/ (lPc = "done" /\ authResult = "true") =>
          /\ SubSeq(started, 1, Len(SCRIPT_NAMES)) = SCRIPT_NAMES
          /\ Len(results) = Len(SCRIPT_NAMES)
    /\ lPc \notin {"running", "conv_running"} => sysIo = "own"
    /\ lPc = "running" => sysIo = SCRIPT_NAMES[scriptIx]
    /\ lPc = "conv_running" => sysIo = CONVERTER_SCRIPT

\* the result is 0 exactly when the four downloaders and the converter ended
\* with code 0
ResultIsConjunction ==
    (lPc = "done" /\ authResult = "true") =>
        (silentRet = 0 <=>
            /\ \A k \in 1..Len(results) : results[k] = 0
            /\ CONVERTER_SCRIPT \in SeqRange(started) /\ converter_rc = 0)

\* C29 as stated: after a successful login check the four downloaders and then
\* the converter are run, whatever the earlier codes.
C29_ConverterAlwaysRun ==
    /\ SequencedDownloaders
    /\ ResultIsConjunction
    /\ (lPc \in {"summary", "done"} /\ authResult = "true") =>
          started = Append(SCRIPT_NAMES, CONVERTER_SCRIPT)

\* C29: a failed or raising login check starts nothing and gives 1; otherwise
\* the four downloaders are run in their order, each whatever the codes of the
\* earlier ones, with sys.argv, stdout and stderr restored after each; then the
\* converter is run if its script exists, and is reported missing and counted
\* as failed if it does not; the result is 0 exactly when the four downloaders
\* and the converter ended with code 0.
C29_SilentSequencing ==
    /\ SequencedDownloaders
    /\ ResultIsConjunction
    /\ (lPc \in {"summary", "done"} /\ authResult = "true") =>
          /\ converterExists => started = Append(SCRIPT_NAMES, CONVERTER_SCRIPT)
          /\ ~converterExists => started = SCRIPT_NAMES /\ converter_rc = 1
          /\ lPc = "done" /\ ~converterExists => silentRet = 1

\* the second downloader failed, the others and the converter were run all the
\* same, and the result is 1
C29_Witness ==
    /\ lPc = "done" /\ authResult = "true"
    /\ results = <<0, 1, 0, 0>> /\ converter_rc = 0
    /\ started = Append(SCRIPT_NAMES, CONVERTER_SCRIPT)
    /\ silentRet = 1 /\ sysIo = "own"

====
